---- MODULE Spec2Model ----
(***************************************************************************)
(* A model of kyberlib: the KEM transform (src/src/kem.rs), the public API *)
(* (src/src/api.rs), the randomness wrapper (src/src/rng.rs) and the two   *)
(* key-exchange state machines Uake and Ake (src/src/kex.rs).              *)
(*                                                                         *)
(* Byte buffers are sequences of cells.  A cell stands for one block of    *)
(* bytes that the code always moves together; lengths and offsets are      *)
(* counted in cells.  A cell is a triple <<tag, index, argument>>: the tag *)
(* names the primitive that produced the block, the index is a natural     *)
(* number, the argument is the sequence of cells the primitive read.       *)
(* Hashes are therefore collision free and a ciphertext determines the     *)
(* public key, message and coins it was made from (the usual symbolic      *)
(* reading of the primitives).                                             *)
(***************************************************************************)
EXTENDS Integers, Sequences, FiniteSets, TLC

(***************************************************************************)
(* Bounds.  The three lengths are the parameter set's lengths scaled down  *)
(* to cells; every relation between lengths is the one of the parameter    *)
(* set (test_params.rs).                                                   *)
(***************************************************************************)
KYBER_SYM_BYTES == 1

KYBER_POLYVEC_BYTES == 1

KYBER_INDCPA_BYTES == 2

MaxRand == 2

MaxSeed == 2

KYBER_SHARED_SECRET_BYTES == KYBER_SYM_BYTES

KYBER_INDCPA_SECRETKEYBYTES == KYBER_POLYVEC_BYTES

KYBER_INDCPA_PUBLICKEYBYTES == KYBER_POLYVEC_BYTES + KYBER_SYM_BYTES

KYBER_PUBLIC_KEY_BYTES == KYBER_INDCPA_PUBLICKEYBYTES

KYBER_SECRET_KEY_BYTES ==
    KYBER_INDCPA_SECRETKEYBYTES + KYBER_INDCPA_PUBLICKEYBYTES + 2 * KYBER_SYM_BYTES

KYBER_CIPHERTEXT_BYTES == KYBER_INDCPA_BYTES

\* derive's literal 64 (two halves of 32 bytes, 32 being KYBER_SYM_BYTES).
SEED_BYTES == 2 * KYBER_SYM_BYTES

(***************************************************************************)
(* State.  keys is the caller's keypair (seed: the seed it was derived     *)
(* from, <<>> when it came from keypair), enc the last successful          *)
(* encapsulation, last the last call with its arguments (a, b; for the     *)
(* randomness source the draws the call took) and what it returned (res,   *)
(* v, w).  alice and bob are the two parties' Uake or Ake                  *)
(* instances, run the handshake between them: which calls were made, what  *)
(* they were given and what they returned.                                 *)
(***************************************************************************)
VARIABLES keys, enc, last, alice, bob, run

kemvars == <<keys, enc, last>>

kexvars == <<alice, bob, run>>

vars == <<keys, enc, last, alice, bob, run>>

(***************************************************************************)
(* Buffers.                                                                *)
(***************************************************************************)
\* One zero block ([0u8; N] is N of them, all equal).
Zero == <<"0", 0, <<>>>>

zeros(n) == [i \in 1..n |-> Zero]

\* n blocks of caller-chosen or random data named by the number v.
Atom(tag, v, n) == [i \in 1..n |-> <<tag, i, << <<"n", v, <<>>>> >> >>]

\* The element of a one-element set.  {F(x) : x \in {e}} computes e once and
\* hands F its value, as a Rust `let x = e;` does.
The(S) == CHOOSE x \in S : TRUE

\* Rust s[a..b] (0-based, half open); the callers keep a <= b <= len(s).
Slice(s, a, b) == SubSeq(s, a + 1, b)

\* Rust dst[off..off+len(src)].copy_from_slice(src).
Splice(dst, off, src) ==
    [i \in 1..Len(dst) |->
        IF i > off /\ i <= off + Len(src) THEN src[i - off] ELSE dst[i]]

(***************************************************************************)
(* SymmetricPrimitives (symmetric.rs).  `out` with `off` models the        *)
(* reborrow &mut out[off..]; the first output-length blocks of it are      *)
(* written, input[..inlen] is read.                                        *)
(***************************************************************************)
Digest(tag, n, input) == [i \in 1..n |-> <<tag, i, input>>]

hash_h(out, off, input, inlen) ==
    Splice(out, off, Digest("H", KYBER_SYM_BYTES, Slice(input, 0, inlen)))

hash_g(out, off, input, inlen) ==
    Splice(out, off, Digest("G", 2 * KYBER_SYM_BYTES, Slice(input, 0, inlen)))

kdf(out, off, input, inlen) ==
    Splice(out, off, Digest("KDF", KYBER_SHARED_SECRET_BYTES, Slice(input, 0, inlen)))

(***************************************************************************)
(* The randomness source.  A source is the sequence of the outcomes of its *)
(* next draws: v > 0 is a successful draw of the value v, 0 is a draw that *)
(* fails, -1 is api.rs's DummyRng, which panics when consulted.            *)
(***************************************************************************)
DummyRng == <<-1>>

\* rng.try_fill_bytes(&mut x[..len]).map_err(|_| RandomBytesGeneration), on
\* the buffer &mut x[off..].
randombytes(x, off, len, q) ==
    IF len > Len(x) - off \/ Head(q) = -1
    THEN [res |-> "panic", x |-> x, q |-> q]
    ELSE IF Head(q) = 0
    THEN [res |-> "RandomBytesGeneration", x |-> x, q |-> Tail(q)]
    ELSE [res |-> "Ok", x |-> Splice(x, off, Atom("r", Head(q), len)), q |-> Tail(q)]

\* The draws of q that a call consumed when it left rest.
Consumed(q, rest) == SubSeq(q, 1, Len(q) - Len(rest))

(***************************************************************************)
(* The lattice PKE (reference/indcpa.rs, consumed through three            *)
(* operations) and the constant-time helpers (reference/verify.rs).        *)
(***************************************************************************)
PkOf(d) == Digest("pk", KYBER_INDCPA_PUBLICKEYBYTES, d)

SkOf(d) == Digest("sk", KYBER_INDCPA_SECRETKEYBYTES, d)

\* seed is <<>> (None) or <<s0, s1>> (Some((s0, s1))).
indcpa_keypair(pk, sk, seed, q) ==
    IF seed # <<>>
    THEN [res |-> "Ok", pk |-> Splice(pk, 0, PkOf(seed[1])),
          sk |-> Splice(sk, 0, SkOf(seed[1])), q |-> q]
    ELSE LET r == randombytes(zeros(2 * KYBER_SYM_BYTES), 0, KYBER_SYM_BYTES, q)
             d == Slice(r.x, 0, KYBER_SYM_BYTES)
         IN  IF r.res # "Ok"
             THEN [res |-> r.res, pk |-> pk, sk |-> sk, q |-> r.q]
             ELSE [res |-> "Ok", pk |-> Splice(pk, 0, PkOf(d)),
                   sk |-> Splice(sk, 0, SkOf(d)), q |-> r.q]

\* Deterministic given the coins.
indcpa_enc(ct, off, m, pk, coins) ==
    Splice(ct, off, Digest("ct", KYBER_INDCPA_BYTES,
        Slice(pk, 0, KYBER_INDCPA_PUBLICKEYBYTES) \o Slice(m, 0, KYBER_SYM_BYTES)
            \o Slice(coins, 0, KYBER_SYM_BYTES)))

\* A ciphertext block as produced ("ct") or with a few low bits changed
\* ("ct~"): lattice decryption tolerates the latter.
CtBlock(c, i) == c[1] \in {"ct", "ct~"} /\ c[2] = i

\* The public key a buffer was before a few low bits of it were changed
\* ("pk~" blocks): a ciphertext made under the changed key still decrypts
\* under the secret key of the unchanged one.
Canon(b) ==
    [i \in 1..Len(b) |-> IF b[i][1] = "pk~" THEN <<"pk", b[i][2], b[i][3]>> ELSE b[i]]

\* Decrypts to the message when ct is, up to tolerated noise, an encryption
\* under the public key that belongs to sk, and to an unrelated message
\* otherwise.
indcpa_dec(m, ct, sk) ==
    LET c == Slice(ct, 0, KYBER_INDCPA_BYTES)
        s == Slice(sk, 0, KYBER_INDCPA_SECRETKEYBYTES)
        wellformed ==
            /\ \A i \in 1..KYBER_INDCPA_BYTES : CtBlock(c[i], i) /\ c[i][3] = c[1][3]
            /\ s[1][1] = "sk"
            /\ s = SkOf(s[1][3])
            /\ Canon(Slice(c[1][3], 0, KYBER_INDCPA_PUBLICKEYBYTES)) = PkOf(s[1][3])
    IN  IF wellformed
        THEN Splice(m, 0, Slice(c[1][3], KYBER_INDCPA_PUBLICKEYBYTES,
                                KYBER_INDCPA_PUBLICKEYBYTES + KYBER_SYM_BYTES))
        ELSE Splice(m, 0, Digest("dec", KYBER_SYM_BYTES, c \o s))

\* verify that looks at the first block only.
verify_first_block(a, b, len) == IF len = 0 \/ a[1] = b[1] THEN 0 ELSE 1

\* 0 when the first len blocks agree, 1 otherwise.
verify(a, b, len) == IF Slice(a, 0, len) = Slice(b, 0, len) THEN 0 ELSE 1

\* r[..len] becomes x[..len] when b is 1 and stays as it is when b is 0.
cmov(r, x, len, b) == IF b = 0 THEN r ELSE Splice(r, 0, Slice(x, 0, len))

(***************************************************************************)
(* KemTransform (kem.rs).  Each operation returns its Result together with *)
(* the buffers it was handed by &mut, as they are when it returns.         *)
(***************************************************************************)
\* generate_key_pair without the copy of pk into sk.
generate_key_pair_no_embed(pk, sk, q, seed) ==
    LET PK_START == KYBER_SECRET_KEY_BYTES - 2 * KYBER_SYM_BYTES
        SK_START == KYBER_SECRET_KEY_BYTES - KYBER_SYM_BYTES
        kp == indcpa_keypair(pk, sk, seed, q)
        sk2 == hash_h(kp.sk, PK_START, kp.pk, KYBER_PUBLIC_KEY_BYTES)
        z == randombytes(sk2, SK_START, KYBER_SYM_BYTES, kp.q)
    IN  IF kp.res # "Ok"
        THEN [res |-> kp.res, pk |-> kp.pk, sk |-> kp.sk, q |-> kp.q]
        ELSE IF seed # <<>>
        THEN [res |-> "Ok", pk |-> kp.pk, sk |-> Splice(sk2, SK_START, seed[2]),
              q |-> kp.q]
        ELSE [res |-> z.res, pk |-> kp.pk, sk |-> z.x, q |-> z.q]

\* generate_key_pair with H(pk) and z in each other's place.
generate_key_pair_z_before_h(pk, sk, q, seed) ==
    LET PK_START == KYBER_SECRET_KEY_BYTES - KYBER_SYM_BYTES
        SK_START == KYBER_SECRET_KEY_BYTES - 2 * KYBER_SYM_BYTES
        END == KYBER_INDCPA_PUBLICKEYBYTES + KYBER_INDCPA_SECRETKEYBYTES
        kp == indcpa_keypair(pk, sk, seed, q)
        sk1 == Splice(kp.sk, KYBER_INDCPA_SECRETKEYBYTES,
                      Slice(kp.pk, 0, KYBER_INDCPA_PUBLICKEYBYTES))
        sk2 == hash_h(sk1, PK_START, kp.pk, KYBER_PUBLIC_KEY_BYTES)
        z == randombytes(sk2, SK_START, KYBER_SYM_BYTES, kp.q)
    IN  IF kp.res # "Ok"
        THEN [res |-> kp.res, pk |-> kp.pk, sk |-> kp.sk, q |-> kp.q]
        ELSE IF seed # <<>>
        THEN [res |-> "Ok", pk |-> kp.pk, sk |-> Splice(sk2, SK_START, seed[2]),
              q |-> kp.q]
        ELSE [res |-> z.res, pk |-> kp.pk, sk |-> z.x, q |-> z.q]

generate_key_pair(pk, sk, q, seed) ==
    LET PK_START == KYBER_SECRET_KEY_BYTES - 2 * KYBER_SYM_BYTES
        SK_START == KYBER_SECRET_KEY_BYTES - KYBER_SYM_BYTES
        END == KYBER_INDCPA_PUBLICKEYBYTES + KYBER_INDCPA_SECRETKEYBYTES
        kp == indcpa_keypair(pk, sk, seed, q)
        sk1 == Splice(kp.sk, KYBER_INDCPA_SECRETKEYBYTES,
                      Slice(kp.pk, 0, KYBER_INDCPA_PUBLICKEYBYTES))
        sk2 == hash_h(sk1, PK_START, kp.pk, KYBER_PUBLIC_KEY_BYTES)
        z == randombytes(sk2, SK_START, KYBER_SYM_BYTES, kp.q)
    IN  IF kp.res # "Ok"
        THEN [res |-> kp.res, pk |-> kp.pk, sk |-> kp.sk, q |-> kp.q]
        ELSE IF seed # <<>>
        THEN [res |-> "Ok", pk |-> kp.pk, sk |-> Splice(sk2, SK_START, seed[2]),
              q |-> kp.q]
        ELSE [res |-> z.res, pk |-> kp.pk, sk |-> z.x, q |-> z.q]

\* ct with ctoff and ss with ssoff model &mut ct[ctoff..] and &mut ss[ssoff..];
\* seed is <<>> (None) or <<s>> (Some(s)).
encrypt_message(ct, ctoff, ss, ssoff, pk, q, seed) ==
    LET r == IF seed # <<>>
             THEN [res |-> "Ok",
                   x |-> Splice(zeros(2 * KYBER_SYM_BYTES), 0, seed[1]), q |-> q]
             ELSE randombytes(zeros(2 * KYBER_SYM_BYTES), 0, KYBER_SYM_BYTES, q)
        randbuf == r.x
        buf1 == hash_h(zeros(2 * KYBER_SYM_BYTES), 0, randbuf, KYBER_SYM_BYTES)
        buf == hash_h(buf1, KYBER_SYM_BYTES, pk, KYBER_PUBLIC_KEY_BYTES)
        kr1 == hash_g(zeros(2 * KYBER_SYM_BYTES), 0, buf, 2 * KYBER_SYM_BYTES)
        ct1 == indcpa_enc(ct, ctoff, buf, pk,
                          Slice(kr1, KYBER_SYM_BYTES, 2 * KYBER_SYM_BYTES))
        kr == hash_h(kr1, KYBER_SYM_BYTES, Slice(ct1, ctoff, Len(ct1)),
                     KYBER_CIPHERTEXT_BYTES)
    IN  IF r.res # "Ok"
        THEN [res |-> r.res, ct |-> ct, ss |-> ss, q |-> r.q]
        ELSE [res |-> "Ok", ct |-> ct1,
              ss |-> kdf(ss, ssoff, kr, 2 * KYBER_SYM_BYTES), q |-> r.q]

\* decrypt_message reading H(pk) one field too far into the secret key.
decrypt_message_hpk_offset(ss, ssoff, ct, sk) ==
    LET pk == Slice(sk, KYBER_INDCPA_SECRETKEYBYTES,
                    KYBER_INDCPA_SECRETKEYBYTES + KYBER_INDCPA_PUBLICKEYBYTES)
        buf1 == indcpa_dec(zeros(2 * KYBER_SYM_BYTES), ct, sk)
        END == KYBER_SECRET_KEY_BYTES - KYBER_SYM_BYTES
        buf == Splice(buf1, KYBER_SYM_BYTES, Slice(sk, END, Len(sk)))
        kr1 == hash_g(zeros(2 * KYBER_SYM_BYTES), 0, buf, 2 * KYBER_SYM_BYTES)
        cmp == indcpa_enc(zeros(KYBER_CIPHERTEXT_BYTES), 0, buf, pk,
                          Slice(kr1, KYBER_SYM_BYTES, 2 * KYBER_SYM_BYTES))
        fail == verify(ct, cmp, KYBER_CIPHERTEXT_BYTES)
        kr2 == hash_h(kr1, KYBER_SYM_BYTES, ct, KYBER_CIPHERTEXT_BYTES)
        kr == cmov(kr2, Slice(sk, END, Len(sk)), KYBER_SYM_BYTES, fail)
    IN  kdf(ss, ssoff, kr, 2 * KYBER_SYM_BYTES)

\* decrypt_message without the conditional move of z over the pre-key.
decrypt_message_no_cmov(ss, ssoff, ct, sk) ==
    LET buf1 == indcpa_dec(zeros(2 * KYBER_SYM_BYTES), ct, sk)
        START == KYBER_SECRET_KEY_BYTES - 2 * KYBER_SYM_BYTES
        END == KYBER_SECRET_KEY_BYTES - KYBER_SYM_BYTES
        buf == Splice(buf1, KYBER_SYM_BYTES, Slice(sk, START, END))
        kr1 == hash_g(zeros(2 * KYBER_SYM_BYTES), 0, buf, 2 * KYBER_SYM_BYTES)
        kr == hash_h(kr1, KYBER_SYM_BYTES, ct, KYBER_CIPHERTEXT_BYTES)
    IN  kdf(ss, ssoff, kr, 2 * KYBER_SYM_BYTES)

\* decrypt_message replacing the pre-key by z whatever verify returned.
decrypt_message_z_always(ss, ssoff, ct, sk) ==
    LET pk == Slice(sk, KYBER_INDCPA_SECRETKEYBYTES,
                    KYBER_INDCPA_SECRETKEYBYTES + KYBER_INDCPA_PUBLICKEYBYTES)
        buf1 == indcpa_dec(zeros(2 * KYBER_SYM_BYTES), ct, sk)
        START == KYBER_SECRET_KEY_BYTES - 2 * KYBER_SYM_BYTES
        END == KYBER_SECRET_KEY_BYTES - KYBER_SYM_BYTES
        buf == Splice(buf1, KYBER_SYM_BYTES, Slice(sk, START, END))
        kr1 == hash_g(zeros(2 * KYBER_SYM_BYTES), 0, buf, 2 * KYBER_SYM_BYTES)
        kr2 == hash_h(kr1, KYBER_SYM_BYTES, ct, KYBER_CIPHERTEXT_BYTES)
        kr == cmov(kr2, Slice(sk, END, Len(sk)), KYBER_SYM_BYTES, 1)
    IN  kdf(ss, ssoff, kr, 2 * KYBER_SYM_BYTES)

\* ss with ssoff models &mut ss[ssoff..]; the value is ss on return.
decrypt_message(ss, ssoff, ct, sk) ==
    LET pk == Slice(sk, KYBER_INDCPA_SECRETKEYBYTES,
                    KYBER_INDCPA_SECRETKEYBYTES + KYBER_INDCPA_PUBLICKEYBYTES)
        buf1 == indcpa_dec(zeros(2 * KYBER_SYM_BYTES), ct, sk)
        START == KYBER_SECRET_KEY_BYTES - 2 * KYBER_SYM_BYTES
        END == KYBER_SECRET_KEY_BYTES - KYBER_SYM_BYTES
        buf == Splice(buf1, KYBER_SYM_BYTES, Slice(sk, START, END))
        kr1 == hash_g(zeros(2 * KYBER_SYM_BYTES), 0, buf, 2 * KYBER_SYM_BYTES)
        cmp == indcpa_enc(zeros(KYBER_CIPHERTEXT_BYTES), 0, buf, pk,
                          Slice(kr1, KYBER_SYM_BYTES, 2 * KYBER_SYM_BYTES))
        fail == verify(ct, cmp, KYBER_CIPHERTEXT_BYTES)
        kr2 == hash_h(kr1, KYBER_SYM_BYTES, ct, KYBER_CIPHERTEXT_BYTES)
        kr == cmov(kr2, Slice(sk, END, Len(sk)), KYBER_SYM_BYTES, fail)
    IN  kdf(ss, ssoff, kr, 2 * KYBER_SYM_BYTES)

(***************************************************************************)
(* The public API (api.rs).                                                *)
(***************************************************************************)
NoKeypair == [public |-> <<>>, secret |-> <<>>]

\* keypair handing back on an error what key generation had written.
keypair_buffers_on_error(q) ==
    LET g == generate_key_pair(zeros(KYBER_PUBLIC_KEY_BYTES),
                               zeros(KYBER_SECRET_KEY_BYTES), q, <<>>)
    IN  [res |-> g.res, keys |-> [public |-> g.pk, secret |-> g.sk], q |-> g.q]

keypair(q) ==
    LET g == generate_key_pair(zeros(KYBER_PUBLIC_KEY_BYTES),
                               zeros(KYBER_SECRET_KEY_BYTES), q, <<>>)
    IN  IF g.res # "Ok"
        THEN [res |-> g.res, keys |-> NoKeypair, q |-> g.q]
        ELSE [res |-> "Ok", keys |-> [public |-> g.pk, secret |-> g.sk], q |-> g.q]

\* encapsulate rejecting only a public key that is too short.
encapsulate_short_only(pk, q) ==
    IF Len(pk) < KYBER_PUBLIC_KEY_BYTES
    THEN [res |-> "InvalidInput", ct |-> <<>>, ss |-> <<>>, q |-> q]
    ELSE LET e == encrypt_message(zeros(KYBER_CIPHERTEXT_BYTES), 0,
                                  zeros(KYBER_SHARED_SECRET_BYTES), 0, pk, q, <<>>)
         IN  IF e.res # "Ok"
             THEN [res |-> e.res, ct |-> <<>>, ss |-> <<>>, q |-> e.q]
             ELSE [res |-> "Ok", ct |-> e.ct, ss |-> e.ss, q |-> e.q]

\* encapsulate drawing its randomness before it looks at the length of pk.
encapsulate_draw_first(pk, q) ==
    LET r == randombytes(zeros(2 * KYBER_SYM_BYTES), 0, KYBER_SYM_BYTES, q)
    IN  IF r.res # "Ok"
        THEN [res |-> r.res, ct |-> <<>>, ss |-> <<>>, q |-> r.q]
        ELSE IF Len(pk) # KYBER_PUBLIC_KEY_BYTES
        THEN [res |-> "InvalidInput", ct |-> <<>>, ss |-> <<>>, q |-> r.q]
        ELSE LET e == encrypt_message(zeros(KYBER_CIPHERTEXT_BYTES), 0,
                                      zeros(KYBER_SHARED_SECRET_BYTES), 0, pk, q, <<>>)
             IN  [res |-> "Ok", ct |-> e.ct, ss |-> e.ss, q |-> e.q]

encapsulate(pk, q) ==
    IF Len(pk) # KYBER_PUBLIC_KEY_BYTES
    THEN [res |-> "InvalidInput", ct |-> <<>>, ss |-> <<>>, q |-> q]
    ELSE LET e == encrypt_message(zeros(KYBER_CIPHERTEXT_BYTES), 0,
                                  zeros(KYBER_SHARED_SECRET_BYTES), 0, pk, q, <<>>)
         IN  IF e.res # "Ok"
             THEN [res |-> e.res, ct |-> <<>>, ss |-> <<>>, q |-> e.q]
             ELSE [res |-> "Ok", ct |-> e.ct, ss |-> e.ss, q |-> e.q]

\* decapsulate reporting a ciphertext that is not one the PKE produced.
decapsulate_explicit_reject(ct, sk) ==
    IF Len(ct) # KYBER_CIPHERTEXT_BYTES \/ Len(sk) # KYBER_SECRET_KEY_BYTES
    THEN [res |-> "InvalidInput", ss |-> <<>>]
    ELSE IF ct[1][1] # "ct"
    THEN [res |-> "Decapsulation", ss |-> <<>>]
    ELSE [res |-> "Ok",
          ss |-> decrypt_message(zeros(KYBER_SHARED_SECRET_BYTES), 0, ct, sk)]

\* decapsulate rejecting only a secret key that is too short.
decapsulate_sk_short_only(ct, sk) ==
    IF Len(ct) # KYBER_CIPHERTEXT_BYTES \/ Len(sk) < KYBER_SECRET_KEY_BYTES
    THEN [res |-> "InvalidInput", ss |-> <<>>]
    ELSE [res |-> "Ok",
          ss |-> decrypt_message(zeros(KYBER_SHARED_SECRET_BYTES), 0, ct, sk)]

decapsulate(ct, sk) ==
    IF Len(ct) # KYBER_CIPHERTEXT_BYTES \/ Len(sk) # KYBER_SECRET_KEY_BYTES
    THEN [res |-> "InvalidInput", ss |-> <<>>]
    ELSE [res |-> "Ok",
          ss |-> decrypt_message(zeros(KYBER_SHARED_SECRET_BYTES), 0, ct, sk)]

\* keypairfrom accepting the pair without the trial.
keypairfrom_untried(public, secret, q) ==
    The({IF e.res # "Ok"
         THEN [res |-> e.res, keys |-> NoKeypair, q |-> e.q]
         ELSE [res |-> "Ok", keys |-> [public |-> public, secret |-> secret],
               q |-> e.q] :
         e \in {encapsulate(public, q)}})

\* public and secret are fixed-size arrays; without the zeroize feature the
\* call leaves them as they are.
keypairfrom(public, secret, q) ==
    The({IF e.res # "Ok"
         THEN [res |-> e.res, keys |-> NoKeypair, q |-> e.q]
         ELSE The({IF d.res # "Ok"
                   THEN [res |-> d.res, keys |-> NoKeypair, q |-> e.q]
                   ELSE IF d.ss = e.ss
                   THEN [res |-> "Ok",
                         keys |-> [public |-> public, secret |-> secret], q |-> e.q]
                   ELSE [res |-> "InvalidKey", keys |-> NoKeypair, q |-> e.q] :
                   d \in {decapsulate(e.ct, secret)}}) :
         e \in {encapsulate(public, q)}})

\* derive taking z from the ambient randomness source, whose next output
\* depends on what was drawn from it before.
derive_ambient_z(seed) ==
    IF Len(seed) # SEED_BYTES
    THEN [res |-> "InvalidInput", keys |-> NoKeypair]
    ELSE LET g == generate_key_pair(zeros(KYBER_PUBLIC_KEY_BYTES),
                     zeros(KYBER_SECRET_KEY_BYTES), DummyRng,
                     <<Slice(seed, 0, KYBER_SYM_BYTES),
                       Atom("r", IF enc.set THEN 1 ELSE 2, KYBER_SYM_BYTES)>>)
         IN  [res |-> "Ok", keys |-> [public |-> g.pk, secret |-> g.sk]]

\* derive handing the whole seed to key generation as its keygen seed.
derive_unsplit(seed) ==
    IF Len(seed) # SEED_BYTES
    THEN [res |-> "InvalidInput", keys |-> NoKeypair]
    ELSE LET g == generate_key_pair(zeros(KYBER_PUBLIC_KEY_BYTES),
                     zeros(KYBER_SECRET_KEY_BYTES), DummyRng,
                     <<seed, Slice(seed, KYBER_SYM_BYTES, Len(seed))>>)
         IN  IF g.res # "Ok"
             THEN [res |-> g.res, keys |-> NoKeypair]
             ELSE [res |-> "Ok", keys |-> [public |-> g.pk, secret |-> g.sk]]

derive(seed) ==
    IF Len(seed) # SEED_BYTES
    THEN [res |-> "InvalidInput", keys |-> NoKeypair]
    ELSE LET g == generate_key_pair(zeros(KYBER_PUBLIC_KEY_BYTES),
                     zeros(KYBER_SECRET_KEY_BYTES), DummyRng,
                     <<Slice(seed, 0, KYBER_SYM_BYTES), Slice(seed, KYBER_SYM_BYTES, Len(seed))>>)
         IN  IF g.res # "Ok"
             THEN [res |-> g.res, keys |-> NoKeypair]
             ELSE [res |-> "Ok", keys |-> [public |-> g.pk, secret |-> g.sk]]

\* public with the length check decapsulate has.
public_checked(sk) ==
    IF Len(sk) # KYBER_SECRET_KEY_BYTES
    THEN [res |-> "InvalidInput", pk |-> <<>>]
    ELSE [res |-> "Ok",
          pk |-> Slice(sk, KYBER_INDCPA_SECRETKEYBYTES,
                       KYBER_INDCPA_SECRETKEYBYTES + KYBER_INDCPA_PUBLICKEYBYTES)]

\* The slice panics when sk is shorter than the end of the embedded key.
public(sk) ==
    IF Len(sk) < KYBER_INDCPA_SECRETKEYBYTES + KYBER_INDCPA_PUBLICKEYBYTES
    THEN [res |-> "panic", pk |-> <<>>]
    ELSE [res |-> "Ok",
          pk |-> Slice(sk, KYBER_INDCPA_SECRETKEYBYTES,
                       KYBER_INDCPA_SECRETKEYBYTES + KYBER_INDCPA_PUBLICKEYBYTES)]

(***************************************************************************)
(* The key exchanges (kex.rs).                                             *)
(***************************************************************************)
UAKE_INIT_BYTES == KYBER_PUBLIC_KEY_BYTES + KYBER_CIPHERTEXT_BYTES

UAKE_RESPONSE_BYTES == KYBER_CIPHERTEXT_BYTES

AKE_INIT_BYTES == KYBER_PUBLIC_KEY_BYTES + KYBER_CIPHERTEXT_BYTES

AKE_RESPONSE_BYTES == 2 * KYBER_CIPHERTEXT_BYTES

uake_init_a(send, tk, sk, pkb, q) ==
    The({IF g.res # "Ok"
         THEN [res |-> g.res, send |-> g.pk, tk |-> tk, sk |-> g.sk, q |-> g.q]
         ELSE The({[res |-> e.res, send |-> e.ct, tk |-> e.ss, sk |-> g.sk, q |-> e.q] :
                   e \in {encrypt_message(g.pk, KYBER_PUBLIC_KEY_BYTES, tk, 0, pkb,
                                          g.q, <<>>)}}) :
         g \in {generate_key_pair(send, sk, q, <<>>)}})

\* uake_shared_b reporting a ciphertext that does not decapsulate.
uake_shared_b_authenticating(send, k, recv, skb, q) ==
    LET ct == Slice(recv, KYBER_PUBLIC_KEY_BYTES, Len(recv))
        reject == kdf(zeros(KYBER_SYM_BYTES), 0,
                      Slice(skb, KYBER_SECRET_KEY_BYTES - KYBER_SYM_BYTES,
                            KYBER_SECRET_KEY_BYTES)
                          \o Digest("H", KYBER_SYM_BYTES, ct), 2 * KYBER_SYM_BYTES)
    IN  The({IF e.res # "Ok"
             THEN [res |-> e.res, send |-> e.ct, k |-> k, q |-> e.q]
             ELSE The({IF Slice(buf, KYBER_SYM_BYTES, 2 * KYBER_SYM_BYTES) = reject
                       THEN [res |-> "Decapsulation", send |-> e.ct, k |-> k, q |-> e.q]
                       ELSE [res |-> "Ok", send |-> e.ct,
                             k |-> kdf(k, 0, buf, 2 * KYBER_SYM_BYTES), q |-> e.q] :
                       buf \in {decrypt_message(e.ss, KYBER_SYM_BYTES, ct, skb)}}) :
             e \in {encrypt_message(send, 0, zeros(2 * KYBER_SYM_BYTES), 0, recv, q,
                                    <<>>)}})

\* uake_shared_b deriving k from what buf holds when the encapsulation fails.
uake_shared_b_k_on_error(send, k, recv, skb, q) ==
    The({IF e.res # "Ok"
         THEN [res |-> e.res, send |-> e.ct,
               k |-> kdf(k, 0, e.ss, 2 * KYBER_SYM_BYTES), q |-> e.q]
         ELSE The({[res |-> "Ok", send |-> e.ct,
                    k |-> kdf(k, 0, buf, 2 * KYBER_SYM_BYTES), q |-> e.q] :
                   buf \in {decrypt_message(e.ss, KYBER_SYM_BYTES,
                                Slice(recv, KYBER_PUBLIC_KEY_BYTES, Len(recv)), skb)}}) :
         e \in {encrypt_message(send, 0, zeros(2 * KYBER_SYM_BYTES), 0, recv, q, <<>>)}})

uake_shared_b(send, k, recv, skb, q) ==
    The({IF e.res # "Ok"
         THEN [res |-> e.res, send |-> e.ct, k |-> k, q |-> e.q]
         ELSE The({[res |-> "Ok", send |-> e.ct,
                    k |-> kdf(k, 0, buf, 2 * KYBER_SYM_BYTES), q |-> e.q] :
                   buf \in {decrypt_message(e.ss, KYBER_SYM_BYTES,
                                Slice(recv, KYBER_PUBLIC_KEY_BYTES, Len(recv)), skb)}}) :
         e \in {encrypt_message(send, 0, zeros(2 * KYBER_SYM_BYTES), 0, recv, q, <<>>)}})

\* uake_shared_a with the two halves of the KDF input in the other order.
uake_shared_a_tk_first(k, recv, tk, sk) ==
    The({[res |-> "Ok", k |-> kdf(k, 0, Splice(buf1, 0, tk), 2 * KYBER_SYM_BYTES)] :
         buf1 \in {decrypt_message(zeros(2 * KYBER_SYM_BYTES), KYBER_SYM_BYTES,
                                   recv, sk)}})

uake_shared_a(k, recv, tk, sk) ==
    The({[res |-> "Ok",
          k |-> kdf(k, 0, Splice(buf1, KYBER_SYM_BYTES, tk), 2 * KYBER_SYM_BYTES)] :
         buf1 \in {decrypt_message(zeros(2 * KYBER_SYM_BYTES), 0, recv, sk)}})

ake_init_a(send, tk, sk, pkb, q) ==
    The({IF g.res # "Ok"
         THEN [res |-> g.res, send |-> g.pk, tk |-> tk, sk |-> g.sk, q |-> g.q]
         ELSE The({[res |-> e.res, send |-> e.ct, tk |-> e.ss, sk |-> g.sk, q |-> e.q] :
                   e \in {encrypt_message(g.pk, KYBER_PUBLIC_KEY_BYTES, tk, 0, pkb,
                                          g.q, <<>>)}}) :
         g \in {generate_key_pair(send, sk, q, <<>>)}})

\* ake_shared_b with the secret of the leg to the initiator's static key in
\* block 0 and the secret of the leg to the ephemeral key in block 1.
ake_shared_b_static_first(send, k, recv, skb, pka, q) ==
    The({IF e1.res # "Ok"
         THEN [res |-> e1.res, send |-> e1.ct, k |-> k, q |-> e1.q]
         ELSE The({IF e2.res # "Ok"
                   THEN [res |-> e2.res, send |-> e2.ct, k |-> k, q |-> e2.q]
                   ELSE The({[res |-> "Ok", send |-> e2.ct,
                              k |-> kdf(k, 0, buf, 3 * KYBER_SYM_BYTES), q |-> e2.q] :
                             buf \in {decrypt_message(e2.ss, 2 * KYBER_SYM_BYTES,
                                          Slice(recv, KYBER_PUBLIC_KEY_BYTES, Len(recv)),
                                          skb)}}) :
                   e2 \in {encrypt_message(e1.ct, KYBER_CIPHERTEXT_BYTES, e1.ss,
                                           0, pka, e1.q, <<>>)}}) :
         e1 \in {encrypt_message(send, 0, zeros(3 * KYBER_SYM_BYTES), KYBER_SYM_BYTES,
                                 recv, q, <<>>)}})

ake_shared_b(send, k, recv, skb, pka, q) ==
    The({IF e1.res # "Ok"
         THEN [res |-> e1.res, send |-> e1.ct, k |-> k, q |-> e1.q]
         ELSE The({IF e2.res # "Ok"
                   THEN [res |-> e2.res, send |-> e2.ct, k |-> k, q |-> e2.q]
                   ELSE The({[res |-> "Ok", send |-> e2.ct,
                              k |-> kdf(k, 0, buf, 3 * KYBER_SYM_BYTES), q |-> e2.q] :
                             buf \in {decrypt_message(e2.ss, 2 * KYBER_SYM_BYTES,
                                          Slice(recv, KYBER_PUBLIC_KEY_BYTES, Len(recv)),
                                          skb)}}) :
                   e2 \in {encrypt_message(e1.ct, KYBER_CIPHERTEXT_BYTES, e1.ss,
                                           KYBER_SYM_BYTES, pka, e1.q, <<>>)}}) :
         e1 \in {encrypt_message(send, 0, zeros(3 * KYBER_SYM_BYTES), 0, recv, q, <<>>)}})

\* ake_shared_a decapsulating both ciphertexts of the response under the
\* ephemeral secret key.
ake_shared_a_eska_twice(k, recv, tk, sk, ska) ==
    The({The({[res |-> "Ok",
               k |-> kdf(k, 0, Splice(b2, 2 * KYBER_SYM_BYTES, tk),
                         3 * KYBER_SYM_BYTES)] :
              b2 \in {decrypt_message(b1, KYBER_SYM_BYTES,
                          Slice(recv, KYBER_CIPHERTEXT_BYTES, Len(recv)), sk)}}) :
         b1 \in {decrypt_message(zeros(3 * KYBER_SYM_BYTES), 0, recv, sk)}})

ake_shared_a(k, recv, tk, sk, ska) ==
    The({The({[res |-> "Ok",
               k |-> kdf(k, 0, Splice(b2, 2 * KYBER_SYM_BYTES, tk),
                         3 * KYBER_SYM_BYTES)] :
              b2 \in {decrypt_message(b1, KYBER_SYM_BYTES,
                          Slice(recv, KYBER_CIPHERTEXT_BYTES, Len(recv)), ska)}}) :
         b1 \in {decrypt_message(zeros(3 * KYBER_SYM_BYTES), 0, recv, sk)}})

\* Uake::default() and Uake::new().
Uake_default ==
    [shared_secret |-> zeros(KYBER_SHARED_SECRET_BYTES),
     send_a |-> zeros(UAKE_INIT_BYTES), send_b |-> zeros(UAKE_RESPONSE_BYTES),
     temp_key |-> zeros(KYBER_SHARED_SECRET_BYTES),
     eska |-> zeros(KYBER_SECRET_KEY_BYTES)]

\* Each method returns its Result (res, and out for the Ok value) together
\* with the instance as the call leaves it.
\* client_init that also stores the encapsulated secret in shared_secret.
Uake_client_init_writing_secret(self, pubkey, q) ==
    The({[res |-> r.res,
          self |-> [self EXCEPT !.send_a = r.send, !.temp_key = r.tk, !.eska = r.sk,
                                !.shared_secret = r.tk],
          out |-> IF r.res = "Ok" THEN r.send ELSE <<>>, q |-> r.q] :
         r \in {uake_init_a(self.send_a, self.temp_key, self.eska, pubkey, q)}})

Uake_client_init(self, pubkey, q) ==
    The({[res |-> r.res,
          self |-> [self EXCEPT !.send_a = r.send, !.temp_key = r.tk, !.eska = r.sk],
          out |-> IF r.res = "Ok" THEN r.send ELSE <<>>, q |-> r.q] :
         r \in {uake_init_a(self.send_a, self.temp_key, self.eska, pubkey, q)}})

Uake_server_receive(self, send_a, secretkey, q) ==
    The({[res |-> r.res,
          self |-> [self EXCEPT !.send_b = r.send, !.shared_secret = r.k],
          out |-> IF r.res = "Ok" THEN r.send ELSE <<>>, q |-> r.q] :
         r \in {uake_shared_b(self.send_b, self.shared_secret, send_a, secretkey, q)}})

\* client_confirm refusing an instance on which client_init has not run.
Uake_client_confirm_after_init_only(self, send_b) ==
    IF self.eska = zeros(KYBER_SECRET_KEY_BYTES)
    THEN [res |-> "InvalidInput", self |-> self]
    ELSE The({[res |-> r.res, self |-> [self EXCEPT !.shared_secret = r.k]] :
              r \in {uake_shared_a(self.shared_secret, send_b, self.temp_key,
                                   self.eska)}})

Uake_client_confirm(self, send_b) ==
    The({[res |-> r.res, self |-> [self EXCEPT !.shared_secret = r.k]] :
         r \in {uake_shared_a(self.shared_secret, send_b, self.temp_key, self.eska)}})

\* Ake::default() and Ake::new().
Ake_default ==
    [shared_secret |-> zeros(KYBER_SHARED_SECRET_BYTES),
     send_a |-> zeros(AKE_INIT_BYTES), send_b |-> zeros(AKE_RESPONSE_BYTES),
     temp_key |-> zeros(KYBER_SHARED_SECRET_BYTES),
     eska |-> zeros(KYBER_SECRET_KEY_BYTES)]

Ake_client_init(self, pubkey, q) ==
    The({[res |-> r.res,
          self |-> [self EXCEPT !.send_a = r.send, !.temp_key = r.tk, !.eska = r.sk],
          out |-> IF r.res = "Ok" THEN r.send ELSE <<>>, q |-> r.q] :
         r \in {ake_init_a(self.send_a, self.temp_key, self.eska, pubkey, q)}})

Ake_server_receive(self, ake_send_a, pubkey, secretkey, q) ==
    The({[res |-> r.res,
          self |-> [self EXCEPT !.send_b = r.send, !.shared_secret = r.k],
          out |-> IF r.res = "Ok" THEN r.send ELSE <<>>, q |-> r.q] :
         r \in {ake_shared_b(self.send_b, self.shared_secret, ake_send_a, secretkey,
                             pubkey, q)}})

Ake_client_confirm(self, send_b, secretkey) ==
    The({[res |-> r.res, self |-> [self EXCEPT !.shared_secret = r.k]] :
         r \in {ake_shared_a(self.shared_secret, send_b, self.temp_key, self.eska,
                             secretkey)}})

(***************************************************************************)
(* A caller of the KEM API.                                                *)
(***************************************************************************)

RngOutcomes == 0..MaxRand

Seeds ==
    LET full == {Atom("s", h1, KYBER_SYM_BYTES) \o Atom("s", h2, KYBER_SYM_BYTES) :
                    h1 \in 1..MaxSeed, h2 \in 1..MaxSeed}
    IN  full \cup {Slice(Atom("s", 1, SEED_BYTES + 1), 0, n) :
                    n \in {SEED_BYTES - 1, SEED_BYTES + 1}}

\* Ways of changing a buffer in transit or before a call: one block gets a
\* few bits flipped (a "ct" block becomes "ct~", a "pk" block "pk~") or is
\* replaced by unrelated bytes, or every block is replaced.
Flip(b, i) ==
    [b EXCEPT ![i] = <<IF b[i][1] = "pk" THEN "pk~" ELSE "ct~", b[i][2], b[i][3]>>]

Junk(b, i) == [b EXCEPT ![i] = <<"x", i, <<>>>>]

Altered(b) ==
    {Flip(b, i) : i \in {j \in 1..Len(b) : b[j][1] \in {"ct", "pk"}}}
        \cup {Junk(b, i) : i \in 1..Len(b)}
        \cup {[i \in 1..Len(b) |-> <<"x", i, <<>>>>]}

\* Buffers of a wrong length made from b: one block short, one block long.
WrongLength(b) == {Slice(b, 0, Len(b) - 1), b \o <<Zero>>}

\* A keypair other than the caller's own (unless the caller derived this one).
OtherKeys == derive(Atom("s", 1, SEED_BYTES)).keys

PkInputs ==
    {keys.public, zeros(KYBER_PUBLIC_KEY_BYTES)} \cup WrongLength(keys.public)

CtInputs ==
    (IF enc.set THEN {enc.ct} \cup Altered(enc.ct) \cup WrongLength(enc.ct) ELSE {})
        \cup {zeros(KYBER_CIPHERTEXT_BYTES)} \cup WrongLength(zeros(KYBER_CIPHERTEXT_BYTES))

SkInputs ==
    {keys.secret, OtherKeys.secret, zeros(KYBER_SECRET_KEY_BYTES),
     Atom("x", 1, KYBER_SECRET_KEY_BYTES)}
        \cup WrongLength(keys.secret)
        \cup {Slice(keys.secret, 0, KYBER_INDCPA_SECRETKEYBYTES)}

\* No operation reads last.  A call is therefore explored from the states in
\* which the last call changed keys or enc (or nothing was called yet): a
\* call made after one that changed only last reaches no other state.
CallerReady ==
    \/ last.op = "none"
    \/ last.res = "Ok" /\ last.op \in {"keypair", "derive", "encapsulate"}

\* No handshake has been started.
NoRun ==
    [proto |-> "none", pc |-> "new", q1 |-> <<>>, q2 |-> <<>>,
     r1 |-> "none", r2 |-> "none", r3 |-> "none",
     sent_a |-> <<>>, recv_a |-> <<>>, sent_b |-> <<>>, recv_b |-> <<>>,
     pka |-> <<>>]

Init ==
    /\ keys = [set |-> FALSE, public |-> zeros(KYBER_PUBLIC_KEY_BYTES),
               secret |-> zeros(KYBER_SECRET_KEY_BYTES), seed |-> <<>>]
    /\ enc = [set |-> FALSE, pk |-> <<>>, ct |-> <<>>, ss |-> <<>>]
    /\ last = [op |-> "none", res |-> "Ok", a |-> <<>>, b |-> <<>>, v |-> <<>>, w |-> <<>>]
    /\ alice = Uake_default
    /\ bob = Uake_default
    /\ run = NoRun

Keypair ==
    /\ CallerReady
    /\ \E d1 \in RngOutcomes, d2 \in RngOutcomes :
        LET r == keypair(<<d1, d2>>)
        IN  /\ keys' = IF r.res = "Ok"
                       THEN [set |-> TRUE, public |-> r.keys.public,
                             secret |-> r.keys.secret, seed |-> <<>>]
                       ELSE keys
            /\ last' = [op |-> "keypair", res |-> r.res,
                        a |-> Consumed(<<d1, d2>>, r.q), b |-> <<>>,
                        v |-> r.keys.public, w |-> r.keys.secret]
            /\ UNCHANGED <<enc, kexvars>>

Derive ==
    /\ CallerReady
    /\ \E seed \in Seeds :
        LET r == derive(seed)
        IN  /\ keys' = IF r.res = "Ok"
                       THEN [set |-> TRUE, public |-> r.keys.public,
                             secret |-> r.keys.secret, seed |-> seed]
                       ELSE keys
            /\ last' = [op |-> "derive", res |-> r.res, a |-> seed, b |-> <<>>,
                       v |-> r.keys.public, w |-> r.keys.secret]
            /\ UNCHANGED <<enc, kexvars>>

Encapsulate ==
    /\ CallerReady
    /\ \E pk \in PkInputs, d \in RngOutcomes :
        LET r == encapsulate(pk, <<d>>)
        IN  /\ enc' = IF r.res = "Ok"
                      THEN [set |-> TRUE, pk |-> pk, ct |-> r.ct, ss |-> r.ss]
                      ELSE enc
            /\ last' = [op |-> "encapsulate", res |-> r.res, a |-> pk,
                        b |-> Consumed(<<d>>, r.q),
                        v |-> r.ct, w |-> r.ss]
            /\ UNCHANGED <<keys, kexvars>>

Decapsulate ==
    /\ CallerReady
    /\ \E ct \in CtInputs, sk \in SkInputs :
        LET r == decapsulate(ct, sk)
        IN  /\ last' = [op |-> "decapsulate", res |-> r.res, a |-> ct, b |-> sk,
                       v |-> r.ss, w |-> <<>>]
            /\ UNCHANGED <<keys, enc, kexvars>>

\* The secret keys handed to public: those handed to decapsulate and every
\* prefix of the caller's.
PublicSkInputs ==
    SkInputs \cup {Slice(keys.secret, 0, n) : n \in 0..KYBER_SECRET_KEY_BYTES}

Public ==
    /\ CallerReady
    /\ \E sk \in PublicSkInputs :
        LET r == public(sk)
        IN  /\ last' = [op |-> "public", res |-> r.res, a |-> sk, b |-> <<>>,
                       v |-> r.pk, w |-> <<>>]
            /\ UNCHANGED <<keys, enc, kexvars>>

\* kem::generate_key_pair(&mut pk, &mut sk, &mut rng, None) on zeroed buffers;
\* v and w are pk and sk as the call leaves them.
GenerateKeyPair ==
    /\ CallerReady
    /\ \E d1 \in RngOutcomes, d2 \in RngOutcomes :
        LET g == generate_key_pair(zeros(KYBER_PUBLIC_KEY_BYTES),
                                   zeros(KYBER_SECRET_KEY_BYTES), <<d1, d2>>, <<>>)
        IN  /\ last' = [op |-> "generate_key_pair", res |-> g.res,
                        a |-> Consumed(<<d1, d2>>, g.q), b |-> <<>>,
                        v |-> g.pk, w |-> g.sk]
            /\ UNCHANGED <<keys, enc, kexvars>>

\* Pairs handed to keypairfrom: the caller's keypair or another one, the
\* secret key whole, with one block overwritten, or all zero.
ImportPkInputs == {keys.public, OtherKeys.public}

ImportSkInputs ==
    {keys.secret, OtherKeys.secret, zeros(KYBER_SECRET_KEY_BYTES)}
        \cup {Junk(keys.secret, i) : i \in 1..KYBER_SECRET_KEY_BYTES}

Keypairfrom ==
    /\ CallerReady
    /\ \E pk \in ImportPkInputs, sk \in ImportSkInputs, d \in RngOutcomes :
        \E r \in {keypairfrom(pk, sk, <<d>>)} :
            /\ last' = [op |-> "keypairfrom", res |-> r.res, a |-> pk,
                        b |-> sk, v |-> r.keys.public, w |-> r.keys.secret]
            /\ UNCHANGED <<keys, enc, kexvars>>

\* rng::randombytes(&mut x, len, &mut rng) on a zeroed buffer of the size of
\* kem.rs's randbuf, for every len up to one more than the buffer holds; b is
\* <<len>>, v is x as the call leaves it.
Randombytes ==
    /\ CallerReady
    /\ \E len \in 0..(2 * KYBER_SYM_BYTES + 1), d \in RngOutcomes :
        \E r \in {randombytes(zeros(2 * KYBER_SYM_BYTES), 0, len, <<d>>)} :
            /\ last' = [op |-> "randombytes", res |-> r.res,
                        a |-> zeros(2 * KYBER_SYM_BYTES), b |-> <<len>>,
                        v |-> r.x, w |-> <<>>]
            /\ UNCHANGED <<keys, enc, kexvars>>

\* Buffers of the length of a ciphertext over three block values, the inputs
\* of the constant-time helpers.
CmpBlocks == {Zero, <<"x", 1, <<>>>>, <<"x", 2, <<>>>>}
CmpBuffers == [1..KYBER_CIPHERTEXT_BYTES -> CmpBlocks]

\* verify(&a, &b, len) for every pair of buffers and every len within them,
\* called on its own; v is <<len>>, w is <<the value returned>>.
Verify ==
    /\ last.op = "none"
    /\ \E x \in CmpBuffers, y \in CmpBuffers, len \in 0..KYBER_CIPHERTEXT_BYTES :
        /\ last' = [op |-> "verify", res |-> "Ok", a |-> x, b |-> y,
                    v |-> <<len>>, w |-> <<verify(x, y, len)>>]
        /\ UNCHANGED <<keys, enc, kexvars>>

\* The caller's Keypair goes out of scope, built with the zeroize feature:
\* the struct derives Zeroize and ZeroizeOnDrop, so its fields are overwritten
\* with zero before the memory is released.  keys is what that memory holds.
DropKeypair ==
    /\ CallerReady
    /\ keys.set
    /\ keys' = [set |-> FALSE, public |-> zeros(KYBER_PUBLIC_KEY_BYTES),
                secret |-> zeros(KYBER_SECRET_KEY_BYTES), seed |-> <<>>]
    /\ last' = [op |-> "drop", res |-> "Ok", a |-> <<>>, b |-> <<>>,
                v |-> <<>>, w |-> <<>>]
    /\ UNCHANGED <<enc, kexvars>>

Next ==
    \/ Keypair \/ Derive \/ Encapsulate \/ Decapsulate \/ Public
    \/ GenerateKeyPair \/ Keypairfrom \/ Randombytes \/ DropKeypair
    \/ Verify

Spec == Init /\ [][Next]_vars

(***************************************************************************)
(* A handshake between two parties, alice (initiator) and bob (responder), *)
(* over a network that delivers each message as sent, altered or forged.   *)
(***************************************************************************)
\* The static keypairs, and the keypair and the coins of whoever forges
\* messages.  Their random bytes are none of those a handshake draws.
bob_keys == keypair(<<MaxRand + 1, MaxRand + 1>>).keys

alice_keys == keypair(<<MaxRand + 2, MaxRand + 2>>).keys

mallory_keys == keypair(<<MaxRand + 3, MaxRand + 3>>).keys

\* A ciphertext somebody else encapsulated to pk.
Forged(pk) == encapsulate(pk, <<MaxRand + 3>>).ct

\* What may arrive at the responder when m (ephemeral public key followed by
\* a ciphertext for the responder's static key) was sent.
DeliveredInit(m) ==
    {m} \cup Altered(m)
        \cup {Splice(m, 0, mallory_keys.public),
              Splice(m, KYBER_PUBLIC_KEY_BYTES, Forged(bob_keys.public))}

\* What may arrive at the initiator when the Uake response m was sent.
DeliveredUakeResponse(m) ==
    {m} \cup Altered(m)
        \cup {Forged(Slice(run.sent_a, 0, KYBER_PUBLIC_KEY_BYTES))}

\* What may arrive at the initiator when the Ake response m was sent.
DeliveredAkeResponse(m) ==
    {m} \cup Altered(m)
        \cup {Splice(m, 0, Forged(Slice(run.sent_a, 0, KYBER_PUBLIC_KEY_BYTES))),
              Splice(m, KYBER_CIPHERTEXT_BYTES, Forged(alice_keys.public))}

\* Random values are interchangeable: no operation looks at one other than
\* to copy and to hash it.  The draws of a handshake are therefore explored up
\* to renaming: each is a failure, a value drawn before, or the least value
\* not drawn so far.
UpToRenaming(q) ==
    \A i \in 1..Len(q) : \A v \in 1..(q[i] - 1) : \E j \in 1..(i - 1) : q[j] = v

\* let mut alice = Uake::new(); let mut bob = Uake::new();
\* alice.client_init(&bob_keys.public, &mut rng)?
UakeClientInit ==
    /\ run.pc = "new"
    /\ \E d1 \in RngOutcomes, d2 \in RngOutcomes, d3 \in RngOutcomes :
        /\ UpToRenaming(<<d1, d2, d3>>)
        /\ \E r \in {Uake_client_init(Uake_default, bob_keys.public, <<d1, d2, d3>>)} :
            /\ alice' = r.self
            /\ bob' = Uake_default
            /\ run' = [run EXCEPT !.proto = "uake",
                           !.pc = IF r.res = "Ok" THEN "sent" ELSE "aborted",
                           !.q1 = Consumed(<<d1, d2, d3>>, r.q),
                           !.r1 = r.res, !.sent_a = r.out]
    /\ UNCHANGED kemvars

\* bob.server_receive(client_init, &bob_keys.secret, &mut rng)?
UakeServerReceive ==
    /\ run.proto = "uake" /\ run.pc = "sent"
    /\ \E recv \in DeliveredInit(run.sent_a), d \in RngOutcomes :
        /\ UpToRenaming(run.q1 \o <<d>>)
        /\ \E r \in {Uake_server_receive(bob, recv, bob_keys.secret, <<d>>)} :
            /\ bob' = r.self
            /\ run' = [run EXCEPT
                           !.pc = IF r.res = "Ok" THEN "answered" ELSE "aborted",
                           !.q2 = Consumed(<<d>>, r.q),
                           !.r2 = r.res, !.recv_a = recv, !.sent_b = r.out]
    /\ UNCHANGED <<alice, kemvars>>

\* alice.client_confirm(server_send)?
UakeClientConfirm ==
    /\ run.proto = "uake" /\ run.pc = "answered"
    /\ \E recv \in DeliveredUakeResponse(run.sent_b) :
        \E r \in {Uake_client_confirm(alice, recv)} :
            /\ alice' = r.self
            /\ run' = [run EXCEPT !.pc = "done", !.r3 = r.res, !.recv_b = recv]
    /\ UNCHANGED <<bob, kemvars>>

\* let mut alice = Ake::new(); let mut bob = Ake::new();
\* alice.client_init(&bob_keys.public, &mut rng)?
AkeClientInit ==
    /\ run.pc = "new"
    /\ \E d1 \in RngOutcomes, d2 \in RngOutcomes, d3 \in RngOutcomes :
        /\ UpToRenaming(<<d1, d2, d3>>)
        /\ \E r \in {Ake_client_init(Ake_default, bob_keys.public, <<d1, d2, d3>>)} :
            /\ alice' = r.self
            /\ bob' = Ake_default
            /\ run' = [run EXCEPT !.proto = "ake",
                           !.pc = IF r.res = "Ok" THEN "sent" ELSE "aborted",
                           !.q1 = Consumed(<<d1, d2, d3>>, r.q),
                           !.r1 = r.res, !.sent_a = r.out]
    /\ UNCHANGED kemvars

\* bob.server_receive(client_init, &alice_keys.public, &bob_keys.secret,
\* &mut rng)?, or with a public key that is not alice's.
AkeServerReceive ==
    /\ run.proto = "ake" /\ run.pc = "sent"
    /\ \E recv \in DeliveredInit(run.sent_a),
          pka \in {alice_keys.public, mallory_keys.public},
          d1 \in RngOutcomes, d2 \in RngOutcomes :
        /\ UpToRenaming(run.q1 \o <<d1, d2>>)
        /\ \E r \in {Ake_server_receive(bob, recv, pka, bob_keys.secret, <<d1, d2>>)} :
            /\ bob' = r.self
            /\ run' = [run EXCEPT
                           !.pc = IF r.res = "Ok" THEN "answered" ELSE "aborted",
                           !.q2 = Consumed(<<d1, d2>>, r.q),
                           !.r2 = r.res, !.recv_a = recv, !.pka = pka,
                           !.sent_b = r.out]
    /\ UNCHANGED <<alice, kemvars>>

\* alice.client_confirm(server_send, &alice_keys.secret)?
AkeClientConfirm ==
    /\ run.proto = "ake" /\ run.pc = "answered"
    /\ \E recv \in DeliveredAkeResponse(run.sent_b) :
        \E r \in {Ake_client_confirm(alice, recv, alice_keys.secret)} :
            /\ alice' = r.self
            /\ run' = [run EXCEPT !.pc = "done", !.r3 = r.res, !.recv_b = recv]
    /\ UNCHANGED <<bob, kemvars>>

NextKex ==
    \/ UakeClientInit \/ UakeServerReceive \/ UakeClientConfirm
    \/ AkeClientInit \/ AkeServerReceive \/ AkeClientConfirm

SpecKex == Init /\ [][NextKex]_vars

(***************************************************************************)
(* The handshake driven by the macros of macros.rs.  Each macro builds its *)
(* own instance with new(), calls one method on it and yields the method's *)
(* result; the instance is a temporary.  alice is the instance the latest  *)
(* initiator-side macro built, bob the one the latest responder-side macro *)
(* built, each as its method left it.                                      *)
(***************************************************************************)
\* kyberlib_uake_client_init!(&bob_keys.public, &mut rng)
kyberlib_uake_client_init ==
    /\ run.pc = "new"
    /\ \E d1 \in RngOutcomes, d2 \in RngOutcomes, d3 \in RngOutcomes :
        /\ UpToRenaming(<<d1, d2, d3>>)
        /\ \E r \in {Uake_client_init(Uake_default, bob_keys.public, <<d1, d2, d3>>)} :
            /\ alice' = r.self
            /\ bob' = Uake_default
            /\ run' = [run EXCEPT !.proto = "uake",
                           !.pc = IF r.res = "Ok" THEN "sent" ELSE "aborted",
                           !.q1 = Consumed(<<d1, d2, d3>>, r.q),
                           !.r1 = r.res, !.sent_a = r.out]
    /\ UNCHANGED kemvars

\* kyberlib_uake_server_receive!(client_init, &bob_keys.secret, &mut rng)
kyberlib_uake_server_receive ==
    /\ run.proto = "uake" /\ run.pc = "sent"
    /\ \E recv \in DeliveredInit(run.sent_a), d \in RngOutcomes :
        /\ UpToRenaming(run.q1 \o <<d>>)
        /\ \E r \in {Uake_server_receive(Uake_default, recv, bob_keys.secret, <<d>>)} :
            /\ bob' = r.self
            /\ run' = [run EXCEPT
                           !.pc = IF r.res = "Ok" THEN "answered" ELSE "aborted",
                           !.q2 = Consumed(<<d>>, r.q),
                           !.r2 = r.res, !.recv_a = recv, !.sent_b = r.out]
    /\ UNCHANGED <<alice, kemvars>>

\* kyberlib_uake_client_confirm!(server_send)
kyberlib_uake_client_confirm ==
    /\ run.proto = "uake" /\ run.pc = "answered"
    /\ \E recv \in DeliveredUakeResponse(run.sent_b) :
        \E r \in {Uake_client_confirm(Uake_default, recv)} :
            /\ alice' = r.self
            /\ run' = [run EXCEPT !.pc = "done", !.r3 = r.res, !.recv_b = recv]
    /\ UNCHANGED <<bob, kemvars>>

\* kyberlib_ake_client_init!(&bob_keys.public, &mut rng)
kyberlib_ake_client_init ==
    /\ run.pc = "new"
    /\ \E d1 \in RngOutcomes, d2 \in RngOutcomes, d3 \in RngOutcomes :
        /\ UpToRenaming(<<d1, d2, d3>>)
        /\ \E r \in {Ake_client_init(Ake_default, bob_keys.public, <<d1, d2, d3>>)} :
            /\ alice' = r.self
            /\ bob' = Ake_default
            /\ run' = [run EXCEPT !.proto = "ake",
                           !.pc = IF r.res = "Ok" THEN "sent" ELSE "aborted",
                           !.q1 = Consumed(<<d1, d2, d3>>, r.q),
                           !.r1 = r.res, !.sent_a = r.out]
    /\ UNCHANGED kemvars

\* kyberlib_ake_server_receive!(client_init, &alice_keys.public,
\* &bob_keys.secret, &mut rng), or with a public key that is not alice's.
kyberlib_ake_server_receive ==
    /\ run.proto = "ake" /\ run.pc = "sent"
    /\ \E recv \in DeliveredInit(run.sent_a),
          pka \in {alice_keys.public, mallory_keys.public},
          d1 \in RngOutcomes, d2 \in RngOutcomes :
        /\ UpToRenaming(run.q1 \o <<d1, d2>>)
        /\ \E r \in {Ake_server_receive(Ake_default, recv, pka, bob_keys.secret,
                                        <<d1, d2>>)} :
            /\ bob' = r.self
            /\ run' = [run EXCEPT
                           !.pc = IF r.res = "Ok" THEN "answered" ELSE "aborted",
                           !.q2 = Consumed(<<d1, d2>>, r.q),
                           !.r2 = r.res, !.recv_a = recv, !.pka = pka,
                           !.sent_b = r.out]
    /\ UNCHANGED <<alice, kemvars>>

\* kyberlib_ake_client_confirm!(server_send, &alice_keys.secret)
kyberlib_ake_client_confirm ==
    /\ run.proto = "ake" /\ run.pc = "answered"
    /\ \E recv \in DeliveredAkeResponse(run.sent_b) :
        \E r \in {Ake_client_confirm(Ake_default, recv, alice_keys.secret)} :
            /\ alice' = r.self
            /\ run' = [run EXCEPT !.pc = "done", !.r3 = r.res, !.recv_b = recv]
    /\ UNCHANGED <<bob, kemvars>>

NextMacro ==
    \/ kyberlib_uake_client_init \/ kyberlib_uake_server_receive
    \/ kyberlib_uake_client_confirm
    \/ kyberlib_ake_client_init \/ kyberlib_ake_server_receive
    \/ kyberlib_ake_client_confirm

SpecMacro == Init /\ [][NextMacro]_vars

\* Something reached a party other than as the other party sent it, or the
\* responder of an Ake used a public key that is not the initiator's.
Tampered ==
    \/ run.recv_a \notin {<<>>, run.sent_a}
    \/ run.recv_b \notin {<<>>, run.sent_b}
    \/ run.pka \notin {<<>>, alice_keys.public}

(***************************************************************************)
(* The handshake with client_confirm called out of phase: on an instance   *)
(* that client_init was never called on, and a second time on an instance  *)
(* that has confirmed.                                                     *)
(***************************************************************************)
\* What a caller may hand to client_confirm as send_b out of phase: zeroes,
\* unrelated bytes, or the response of this run when there is one.
AnyUakeResponse ==
    {zeros(UAKE_RESPONSE_BYTES), Atom("x", 1, UAKE_RESPONSE_BYTES)}
        \cup (IF run.sent_b = <<>> THEN {} ELSE {run.sent_b})

AnyAkeResponse ==
    {zeros(AKE_RESPONSE_BYTES), Atom("x", 1, AKE_RESPONSE_BYTES)}
        \cup (IF run.sent_b = <<>> THEN {} ELSE {run.sent_b})

\* let mut alice = Uake::new(); alice.client_confirm(send_b)?
UakeConfirmFresh ==
    /\ run.pc = "new"
    /\ \E recv \in AnyUakeResponse :
        \E r \in {Uake_client_confirm(Uake_default, recv)} :
            /\ alice' = r.self
            /\ bob' = Uake_default
            /\ run' = [run EXCEPT !.proto = "uake", !.pc = "done", !.r3 = r.res,
                           !.recv_b = recv]
    /\ UNCHANGED kemvars

\* alice.client_confirm(send_b)? once more, after alice.client_confirm
\* returned on a fresh instance or at the end of a handshake in which every
\* message arrived as sent.
UakeConfirmAgain ==
    /\ run.proto = "uake" /\ run.pc = "done"
    /\ run.r1 = "none" \/ ~Tampered
    /\ \E recv \in AnyUakeResponse :
        \E r \in {Uake_client_confirm(alice, recv)} :
            /\ alice' = r.self
            /\ run' = [run EXCEPT !.pc = "reconfirmed", !.r3 = r.res, !.recv_b = recv]
    /\ UNCHANGED <<bob, kemvars>>

\* let mut alice = Ake::new(); alice.client_confirm(send_b, &alice_keys.secret)?
AkeConfirmFresh ==
    /\ run.pc = "new"
    /\ \E recv \in AnyAkeResponse :
        \E r \in {Ake_client_confirm(Ake_default, recv, alice_keys.secret)} :
            /\ alice' = r.self
            /\ bob' = Ake_default
            /\ run' = [run EXCEPT !.proto = "ake", !.pc = "done", !.r3 = r.res,
                           !.recv_b = recv]
    /\ UNCHANGED kemvars

\* alice.client_confirm(send_b, &alice_keys.secret)? once more.
AkeConfirmAgain ==
    /\ run.proto = "ake" /\ run.pc = "done"
    /\ run.r1 = "none" \/ ~Tampered
    /\ \E recv \in AnyAkeResponse :
        \E r \in {Ake_client_confirm(alice, recv, alice_keys.secret)} :
            /\ alice' = r.self
            /\ run' = [run EXCEPT !.pc = "reconfirmed", !.r3 = r.res, !.recv_b = recv]
    /\ UNCHANGED <<bob, kemvars>>

NextPhase ==
    \/ NextKex
    \/ UakeConfirmFresh \/ UakeConfirmAgain
    \/ AkeConfirmFresh \/ AkeConfirmAgain

SpecPhase == Init /\ [][NextPhase]_vars

\* alice and bob go out of scope after the handshake ended or was given up.
\* Uake and Ake derive Clone, Debug, Eq and PartialEq only, with or without
\* the zeroize feature, and have no Drop: the memory is released holding what
\* the fields held.
DropInstances ==
    /\ run.pc \in {"done", "aborted"}
    /\ run' = [run EXCEPT !.pc = "released"]
    /\ UNCHANGED <<alice, bob, kemvars>>

NextDrop == NextKex \/ DropInstances

SpecDrop == Init /\ [][NextDrop]_vars

(***************************************************************************)
(* Claims about the KEM API.                                               *)
(***************************************************************************)
\* The caller holds a keypair from keypair or derive and an encapsulation
\* made to its public key.
EncToOwnKey == keys.set /\ enc.set /\ enc.pk = keys.public

\* The z field of a secret key.
ZOf(sk) == Slice(sk, KYBER_SECRET_KEY_BYTES - KYBER_SYM_BYTES, KYBER_SECRET_KEY_BYTES)

\* C1: round trip.  For a keypair (pk, sk) returned by keypair or derive and
\* any value the randomness source supplied, when encapsulate(pk, rng)
\* returned Ok((ct, ss)), decapsulate(ct, sk) returns Ok(ss), a shared secret
\* of KYBER_SHARED_SECRET_BYTES.
C1_RoundTrip ==
    (EncToOwnKey /\ last.op = "decapsulate" /\ last.a = enc.ct /\ last.b = keys.secret)
        => /\ last.res = "Ok"
           /\ last.v = enc.ss
           /\ Len(last.v) = KYBER_SHARED_SECRET_BYTES

C1_Witness ==
    /\ EncToOwnKey /\ keys.seed = <<>>
    /\ last.op = "decapsulate" /\ last.a = enc.ct /\ last.b = keys.secret
    /\ last.res = "Ok" /\ last.v = enc.ss

NonFailing ==
    /\ \A i \in 1..Len(run.q1) : run.q1[i] # 0
    /\ \A i \in 1..Len(run.q2) : run.q2[i] # 0

\* C4: Uake agreement.  For honest parties and a randomness source that does
\* not fail, when client_init(bob_pk), server_receive(send_a, bob_sk) and
\* client_confirm(send_b) run in that order and every message arrives as it
\* was sent, no call returns an error, and after the third call all three
\* have returned Ok and alice.shared_secret = bob.shared_secret.
C4_UakeAgreement ==
    (run.proto = "uake" /\ NonFailing /\ ~Tampered)
        => /\ run.pc # "aborted"
           /\ run.pc = "done"
                => /\ run.r1 = "Ok" /\ run.r2 = "Ok" /\ run.r3 = "Ok"
                   /\ alice.shared_secret = bob.shared_secret

C4_Witness ==
    /\ run.proto = "uake" /\ run.pc = "done" /\ NonFailing /\ ~Tampered
    /\ run.recv_a = run.sent_a /\ run.recv_b = run.sent_b
    /\ alice.shared_secret = bob.shared_secret
    /\ alice.shared_secret # zeros(KYBER_SHARED_SECRET_BYTES)

\* C5: Ake agreement.  For honest parties with matching static keypairs and
\* a randomness source that does not fail, when client_init(bob_pk),
\* server_receive(send_a, alice_pk, bob_sk) and client_confirm(send_b,
\* alice_sk) run in that order and every message arrives as it was sent, no
\* call returns an error, and after the third call all three have returned Ok
\* and alice.shared_secret = bob.shared_secret.
C5_AkeAgreement ==
    (run.proto = "ake" /\ NonFailing /\ ~Tampered)
        => /\ run.pc # "aborted"
           /\ run.pc = "done"
                => /\ run.r1 = "Ok" /\ run.r2 = "Ok" /\ run.r3 = "Ok"
                   /\ alice.shared_secret = bob.shared_secret

C5_Witness ==
    /\ run.proto = "ake" /\ run.pc = "done" /\ NonFailing /\ ~Tampered
    /\ run.recv_a = run.sent_a /\ run.recv_b = run.sent_b
    /\ run.pka = alice_keys.public
    /\ alice.shared_secret = bob.shared_secret
    /\ alice.shared_secret # zeros(KYBER_SHARED_SECRET_BYTES)

\* C6: silent divergence.  In Uake and Ake, when send_a (its ephemeral key or
\* its ciphertext) or send_b arrives altered or forged, or the responder of
\* an Ake uses a public key that is not the initiator's, server_receive and
\* client_confirm return Ok as they do in an untampered handshake (the only
\* error server_receive has is a failing randomness source, client_confirm
\* has none) and the parties end with different shared secrets.
C6_SilentDivergence ==
    /\ run.r2 \in {"none", "Ok", "RandomBytesGeneration"}
    /\ run.r3 \in {"none", "Ok"}
    /\ (Tampered /\ NonFailing)
        => /\ run.pc # "aborted"
           /\ run.pc = "done"
                => /\ run.r2 = "Ok" /\ run.r3 = "Ok"
                   /\ alice.shared_secret # bob.shared_secret

\* An Ake in which the responder used another public key and both messages
\* arrived as sent.
C6_Witness ==
    /\ run.proto = "ake" /\ run.pc = "done" /\ NonFailing
    /\ run.pka = mallory_keys.public
    /\ run.recv_a = run.sent_a /\ run.recv_b = run.sent_b
    /\ run.r2 = "Ok" /\ run.r3 = "Ok"
    /\ alice.shared_secret # bob.shared_secret

C8_DecapsulateInvalidInput ==
    last.op = "decapsulate"
        => ((last.res = "InvalidInput")
                <=> (Len(last.a) # KYBER_CIPHERTEXT_BYTES
                        \/ Len(last.b) # KYBER_SECRET_KEY_BYTES))

C8_Witness ==
    /\ last.op = "decapsulate" /\ last.res = "InvalidInput"
    /\ Len(last.a) = KYBER_CIPHERTEXT_BYTES
    /\ Len(last.b) = KYBER_SECRET_KEY_BYTES + 1

\* C9: derive is deterministic.  A call of derive with a seed of SEED_BYTES
\* returns Ok, and when the caller's keypair was derived from the same seed
\* the call returns that keypair again, block for block, whatever was called
\* in between; a seed of any other length gets InvalidInput.
C9_DeriveDeterministic ==
    /\ [](last.op = "derive"
            => /\ (last.res = "InvalidInput") <=> (Len(last.a) # SEED_BYTES)
               /\ Len(last.a) = SEED_BYTES => last.res = "Ok")
    /\ [][(last'.op = "derive" /\ last'.res = "Ok" /\ keys.set /\ keys.seed = last'.a)
            => (last'.v = keys.public /\ last'.w = keys.secret)]_vars

\* derive returned the caller's keypair again after an encapsulation to it.
C9_Witness ==
    /\ last.op = "derive" /\ last.res = "Ok"
    /\ EncToOwnKey /\ keys.seed = last.a
    /\ last.v = keys.public /\ last.w = keys.secret

\* C10: key extraction.  For every keypair k returned by keypair or derive,
\* public(k.secret) is k.public.
C10_PublicFromSecret ==
    (keys.set /\ last.op = "public" /\ last.a = keys.secret)
        => (last.res = "Ok" /\ last.v = keys.public)

C10_Witness ==
    /\ keys.set /\ keys.seed # <<>>
    /\ last.op = "public" /\ last.a = keys.secret
    /\ last.res = "Ok" /\ last.v = keys.public

\* One of the draws q failed.
Failed(q) == \E i \in 1..Len(q) : q[i] = 0

\* C11: when the randomness source fails to fill a buffer, keypair returns
\* RandomBytesGeneration and no key, and encapsulate with a pk of
\* KYBER_PUBLIC_KEY_BYTES returns RandomBytesGeneration and neither a
\* ciphertext nor a shared secret; they return that error in no other case.
C11_RngFailure ==
    /\ last.op = "keypair"
        => /\ Failed(last.a) <=> last.res = "RandomBytesGeneration"
           /\ Failed(last.a) => (last.v = <<>> /\ last.w = <<>>)
    /\ (last.op = "encapsulate" /\ Len(last.a) = KYBER_PUBLIC_KEY_BYTES)
        => /\ Failed(last.b) <=> last.res = "RandomBytesGeneration"
           /\ Failed(last.b) => (last.v = <<>> /\ last.w = <<>>)

\* keypair whose second draw, the one of z, failed.
C11_Witness ==
    /\ last.op = "keypair" /\ Len(last.a) = 2 /\ last.a[2] = 0
    /\ last.res = "RandomBytesGeneration"
    /\ last.v = <<>> /\ last.w = <<>>

\* The four fields of a secret key: pke secret key, public key, H(public
\* key), z.
SkFields(sk) ==
    <<Slice(sk, 0, KYBER_INDCPA_SECRETKEYBYTES),
      Slice(sk, KYBER_INDCPA_SECRETKEYBYTES,
            KYBER_INDCPA_SECRETKEYBYTES + KYBER_INDCPA_PUBLICKEYBYTES),
      Slice(sk, KYBER_SECRET_KEY_BYTES - 2 * KYBER_SYM_BYTES,
            KYBER_SECRET_KEY_BYTES - KYBER_SYM_BYTES),
      Slice(sk, KYBER_SECRET_KEY_BYTES - KYBER_SYM_BYTES, KYBER_SECRET_KEY_BYTES)>>

\* Some of the four fields of a zeroed sk buffer were written, others not.
PartlyWritten(sk) ==
    /\ \E i \in 1..4 : SkFields(sk)[i] # zeros(Len(SkFields(sk)[i]))
    /\ \E i \in 1..4 : SkFields(sk)[i] = zeros(Len(SkFields(sk)[i]))

\* C12: key generation never hands out a partially filled secret key.  When
\* a draw of generate_key_pair fails (the PKE seed or the fallback z), the
\* operation returns RandomBytesGeneration, keypair returns no secret key,
\* and the sk buffer generate_key_pair was given has none or all of its four
\* fields written.
C12_NoPartialSecretKey ==
    /\ (last.op \in {"keypair", "generate_key_pair"} /\ Failed(last.a))
        => last.res = "RandomBytesGeneration"
    /\ (last.op = "keypair" /\ Failed(last.a)) => last.w = <<>>
    /\ (last.op = "generate_key_pair" /\ Failed(last.a)) => ~PartlyWritten(last.w)

\* sk is a secret key for pk as far as decapsulation uses it: its pke secret
\* key is the one generated with pk, and it embeds pk and H(pk).  (z plays no
\* part in a decapsulation that succeeds.)
Pairs(pk, sk) ==
    LET f == SkFields(sk)
    IN  /\ f[1][1][1] = "sk"
        /\ f[1] = SkOf(f[1][1][3])
        /\ pk = PkOf(f[1][1][3])
        /\ f[2] = pk
        /\ f[3] = Digest("H", KYBER_SYM_BYTES, pk)

\* C13: keypairfrom (Keypair::import) tries the pair by one encapsulation to
\* public and one decapsulation with secret.  Unless the randomness source
\* fails, it returns Ok with a Keypair of exactly the given public and secret
\* when the secret key pairs with the public key, as it does for every pair
\* from keypair or derive, and InvalidKey when it does not.
C13_KeypairfromVerifies ==
    last.op = "keypairfrom"
        => /\ last.res \in {"Ok", "InvalidKey", "RandomBytesGeneration"}
           /\ last.res = "Ok" => (Pairs(last.a, last.b) /\ last.v = last.a /\ last.w = last.b)
           /\ last.res = "InvalidKey" => ~Pairs(last.a, last.b)
           /\ (keys.set /\ last.a = keys.public /\ last.b = keys.secret)
                => last.res # "InvalidKey"

\* The caller's public key with another keypair's secret key is refused.
C13_Witness ==
    /\ last.op = "keypairfrom" /\ keys.set
    /\ last.a = keys.public /\ last.b = OtherKeys.secret
    /\ keys.secret # OtherKeys.secret
    /\ last.res = "InvalidKey"

\* C14: randombytes(x, len, rng) returns InvalidLength whenever len is more
\* than x holds, and does not abort; for a len that x holds, a successful call
\* fills exactly the first len bytes of x and leaves the others as they were.
C14_RandombytesInvalidLength ==
    last.op = "randombytes"
        => /\ last.b[1] > Len(last.a) => last.res = "InvalidLength"
           /\ (last.b[1] <= Len(last.a) /\ last.res = "Ok")
                => /\ Len(last.v) = Len(last.a)
                   /\ \A i \in 1..Len(last.a) :
                        IF i <= last.b[1] THEN last.v[i][1] = "r"
                                          ELSE last.v[i] = last.a[i]

\* C15: with the zeroize feature, every secret-bearing value is overwritten
\* with zero before its memory is released: the secret of a Keypair, and eska
\* and temp_key of every Uake and Ake instance, whether the handshake ended
\* normally or with an error.
C15_ZeroOnDrop ==
    /\ last.op = "drop" => keys.secret = zeros(KYBER_SECRET_KEY_BYTES)
    /\ run.pc = "released"
        => /\ alice.eska = zeros(KYBER_SECRET_KEY_BYTES)
           /\ alice.temp_key = zeros(KYBER_SHARED_SECRET_BYTES)
           /\ bob.eska = zeros(KYBER_SECRET_KEY_BYTES)
           /\ bob.temp_key = zeros(KYBER_SHARED_SECRET_BYTES)

\* C16: verify(a, b, len) returns 0 when the first len bytes of a and b are
\* equal, a nonzero value when they differ in at least one of them, wherever
\* it lies, and bytes at index >= len never influence the result.
C16_Verify ==
    last.op = "verify"
    => LET len == last.v[1]
           r   == last.w[1]
       IN  /\ Slice(last.a, 0, len) = Slice(last.b, 0, len) => r = 0
           /\ (\E i \in 1..len : last.a[i] # last.b[i]) => r # 0
           /\ \A x \in CmpBuffers, y \in CmpBuffers :
                (/\ Slice(x, 0, len) = Slice(last.a, 0, len)
                 /\ Slice(y, 0, len) = Slice(last.b, 0, len))
                => verify(x, y, len) = r

\* The buffers differ in their last compared byte only, and agree after it
\* or not.
C16_Witness ==
    /\ last.op = "verify"
    /\ last.v[1] = KYBER_CIPHERTEXT_BYTES
    /\ Slice(last.a, 0, last.v[1] - 1) = Slice(last.b, 0, last.v[1] - 1)
    /\ last.a[last.v[1]] # last.b[last.v[1]]
    /\ last.w[1] # 0

\* The input of the KDF call that produced the shared secret ss, and its
\* i-th block of KYBER_SYM_BYTES (from 0).
KdfInput(ss) == ss[1][3]

Block(buf, i) == Slice(buf, i * KYBER_SYM_BYTES, (i + 1) * KYBER_SYM_BYTES)

\* An honest handshake that has completed: no draw failed, every message
\* arrived as sent, the responder of an Ake used the initiator's key.
HonestDone(proto) ==
    /\ run.proto = proto /\ run.pc = "done"
    /\ NonFailing /\ ~Tampered
    /\ run.r1 = "Ok" /\ run.r2 = "Ok" /\ run.r3 = "Ok"

\* The four secrets of a Uake run.  k1: what the responder's encapsulation
\* to the ephemeral public key of send_a returned; k2: the responder's
\* decapsulation of send_a's ciphertext under its static secret key; k2p:
\* the initiator's decapsulation of send_b under its ephemeral secret key.
Uake_k1 ==
    encrypt_message(zeros(KYBER_CIPHERTEXT_BYTES), 0, zeros(KYBER_SYM_BYTES), 0,
                    Slice(run.recv_a, 0, KYBER_PUBLIC_KEY_BYTES), run.q2, <<>>).ss

Uake_k2 ==
    decrypt_message(zeros(KYBER_SYM_BYTES), 0,
                    Slice(run.recv_a, KYBER_PUBLIC_KEY_BYTES, Len(run.recv_a)),
                    bob_keys.secret)

Uake_k2p == decrypt_message(zeros(KYBER_SYM_BYTES), 0, run.recv_b, alice.eska)

\* C18, as stated: in an honest Uake run k1 = temp_key and k2 = k2', the
\* responder's KDF input is k1 followed by k2 and the initiator's is temp_key
\* followed by k2', equal block for block.
C18_UakeInvariant ==
    HonestDone("uake")
    => /\ Uake_k1 = alice.temp_key
       /\ Uake_k2 = Uake_k2p
       /\ KdfInput(bob.shared_secret) = Uake_k1 \o Uake_k2
       /\ KdfInput(alice.shared_secret) = alice.temp_key \o Uake_k2p

\* C18, amended: in an honest Uake run k1 = k2' (the secret encapsulated to
\* the ephemeral key, decapsulated by the initiator from send_b) and k2 =
\* temp_key (the secret the initiator encapsulated to the responder's static
\* key, decapsulated by the responder from send_a); the responder's KDF input
\* is k1 followed by k2, the initiator's is k2' followed by temp_key, and the
\* two are equal block for block.
C18_UakeInvariantAmended ==
    HonestDone("uake")
    => /\ Uake_k1 = Uake_k2p
       /\ Uake_k2 = alice.temp_key
       /\ KdfInput(bob.shared_secret) = Uake_k1 \o Uake_k2
       /\ KdfInput(alice.shared_secret) = Uake_k2p \o alice.temp_key
       /\ \A i \in 0..1 : Block(KdfInput(bob.shared_secret), i)
                            = Block(KdfInput(alice.shared_secret), i)

\* A completed honest run, whose two legs carry different secrets.
C18_Witness ==
    /\ HonestDone("uake")
    /\ Uake_k1 # Uake_k2
    /\ Uake_k1 # zeros(KYBER_SYM_BYTES) /\ Uake_k2 # zeros(KYBER_SYM_BYTES)
    /\ Len(KdfInput(bob.shared_secret)) = 2 * KYBER_SYM_BYTES

\* The secret a ciphertext carries for the holder of sk, and the public key
\* a secret key embeds.
SecretOf(ct, sk) == decrypt_message(zeros(KYBER_SYM_BYTES), 0, ct, sk)

EmbeddedPk(sk) ==
    Slice(sk, KYBER_INDCPA_SECRETKEYBYTES,
          KYBER_INDCPA_SECRETKEYBYTES + KYBER_INDCPA_PUBLICKEYBYTES)

\* C19: Ake block ordering.  In an honest Ake run the KDF inputs of
\* server_receive and client_confirm, three blocks long, are equal block by
\* block: block 0 is the secret of the leg encapsulated to the initiator's
\* ephemeral key (first ciphertext of send_b), block 1 the secret of the leg
\* encapsulated to the initiator's static key (second ciphertext of send_b),
\* block 2 the secret of the leg encapsulated to the responder's static key
\* (ciphertext of send_a, the initiator's temp_key); send_a is the ephemeral
\* public key followed by that ciphertext.
C19_AkeBlockOrder ==
    HonestDone("ake")
    => LET inb == KdfInput(bob.shared_secret)
           ina == KdfInput(alice.shared_secret)
           ct1 == Slice(run.sent_b, 0, KYBER_CIPHERTEXT_BYTES)
           ct2 == Slice(run.sent_b, KYBER_CIPHERTEXT_BYTES, 2 * KYBER_CIPHERTEXT_BYTES)
           cta == Slice(run.sent_a, KYBER_PUBLIC_KEY_BYTES, Len(run.sent_a))
           e1  == encrypt_message(zeros(KYBER_CIPHERTEXT_BYTES), 0,
                                  zeros(KYBER_SYM_BYTES), 0,
                                  EmbeddedPk(alice.eska), run.q2, <<>>)
           e2  == encrypt_message(zeros(KYBER_CIPHERTEXT_BYTES), 0,
                                  zeros(KYBER_SYM_BYTES), 0,
                                  alice_keys.public, e1.q, <<>>)
       IN  /\ Len(inb) = 3 * KYBER_SYM_BYTES /\ Len(ina) = 3 * KYBER_SYM_BYTES
           /\ Len(run.sent_b) = AKE_RESPONSE_BYTES
           /\ \A i \in 0..2 : Block(inb, i) = Block(ina, i)
           /\ e1.ct = ct1 /\ Block(inb, 0) = e1.ss
           /\ Block(ina, 0) = SecretOf(ct1, alice.eska)
           /\ e2.ct = ct2 /\ Block(inb, 1) = e2.ss
           /\ Block(ina, 1) = SecretOf(ct2, alice_keys.secret)
           /\ Block(inb, 2) = SecretOf(cta, bob_keys.secret)
           /\ Block(ina, 2) = alice.temp_key
           /\ Len(run.sent_a) = AKE_INIT_BYTES
           /\ Slice(run.sent_a, 0, KYBER_PUBLIC_KEY_BYTES) = EmbeddedPk(alice.eska)

\* A completed honest Ake run whose three legs carry three different secrets.
C19_Witness ==
    /\ HonestDone("ake")
    /\ LET inb == KdfInput(bob.shared_secret)
       IN  /\ Block(inb, 0) # Block(inb, 1)
           /\ Block(inb, 1) # Block(inb, 2)
           /\ Block(inb, 0) # Block(inb, 2)
           /\ Block(inb, 2) = alice.temp_key
           /\ alice.temp_key # zeros(KYBER_SYM_BYTES)

\* sk, written by key generation together with pk, has the four fields in
\* place and nothing else.
LaidOut(pk, sk) ==
    LET f == SkFields(sk)
    IN  /\ Len(sk) = KYBER_SECRET_KEY_BYTES
        /\ f[1] \o f[2] \o f[3] \o f[4] = sk
        /\ Pairs(pk, sk)

\* C20: secret-key layout.  Every secret key written by generate_key_pair
\* consists of four consecutive fields at fixed offsets: the pke secret key
\* at [0, INDCPA_SK), the public key after it, H(public key) at [SK_BYTES -
\* 2 SYM, SK_BYTES - SYM) and z at [SK_BYTES - SYM, SK_BYTES), with no gap or
\* overlap (SK_BYTES = INDCPA_SK + INDCPA_PK + 2 SYM); decapsulation and
\* public() read the public key, H(pk) and z from the offsets where key
\* generation wrote them.
C20_SecretKeyLayout ==
    /\ KYBER_SECRET_KEY_BYTES
         = KYBER_INDCPA_SECRETKEYBYTES + KYBER_INDCPA_PUBLICKEYBYTES
           + 2 * KYBER_SYM_BYTES
    /\ (last.op = "generate_key_pair" /\ last.res = "Ok")
        => /\ LaidOut(last.v, last.w)
           /\ SkFields(last.w)[4] = Atom("r", last.a[2], KYBER_SYM_BYTES)
    /\ keys.set
        => /\ LaidOut(keys.public, keys.secret)
           /\ IF keys.seed = <<>>
              THEN \E v \in 1..MaxRand :
                      SkFields(keys.secret)[4] = Atom("r", v, KYBER_SYM_BYTES)
              ELSE SkFields(keys.secret)[4]
                      = Slice(keys.seed, KYBER_SYM_BYTES, 2 * KYBER_SYM_BYTES)
           /\ public(keys.secret).pk = SkFields(keys.secret)[2]
    /\ (EncToOwnKey /\ last.op = "encapsulate")
        => \A i \in 1..KYBER_SECRET_KEY_BYTES :
            LET sk2 == Junk(keys.secret, i)
                inz == i > KYBER_SECRET_KEY_BYTES - KYBER_SYM_BYTES
            IN  /\ SecretOf(enc.ct, sk2) = enc.ss <=> inz
                /\ \A ct \in Altered(enc.ct) :
                    /\ SecretOf(ct, keys.secret)
                         = Digest("KDF", KYBER_SHARED_SECRET_BYTES,
                                  SkFields(keys.secret)[4]
                                      \o Digest("H", KYBER_SYM_BYTES, ct))
                    /\ SecretOf(ct, sk2) = SecretOf(ct, keys.secret) <=> ~inz

\* A keypair from keypair, whose secret key generate_key_pair wrote with all
\* four fields, has been encapsulated to, and its secret key decapsulates the
\* ciphertext.
C20_Witness ==
    /\ EncToOwnKey /\ last.op = "encapsulate" /\ keys.seed = <<>>
    /\ LaidOut(keys.public, keys.secret)
    /\ \A i \in 1..4 :
        SkFields(keys.secret)[i] # zeros(Len(SkFields(keys.secret)[i]))
    /\ SecretOf(enc.ct, keys.secret) = enc.ss

\* The two halves of a seed.
KeygenHalf(seed) == Slice(seed, 0, KYBER_SYM_BYTES)

ZHalf(seed) == Slice(seed, KYBER_SYM_BYTES, 2 * KYBER_SYM_BYTES)

\* C21: derive splits its seed.  For every seed of SEED_BYTES, the z field
\* of derive(seed).secret is the second half of the seed, and the public key
\* and every other field of the secret key depend only on the first half:
\* two seeds with the same first half yield the same public key and secret
\* keys that differ only in z.
C21_DeriveSplitsSeed ==
    (last.op = "derive" /\ last.res = "Ok")
    => /\ Len(last.a) = SEED_BYTES
       /\ SkFields(last.w)[4] = ZHalf(last.a)
       /\ \A seed \in Seeds :
            (Len(seed) = SEED_BYTES /\ KeygenHalf(seed) = KeygenHalf(last.a))
            => \E r \in {derive(seed)} :
                /\ r.res = "Ok"
                /\ r.keys.public = last.v
                /\ \A i \in 1..3 : SkFields(r.keys.secret)[i] = SkFields(last.w)[i]
                /\ SkFields(r.keys.secret)[4] = ZHalf(seed)
                /\ r.keys.secret = last.w <=> ZHalf(seed) = ZHalf(last.a)
       /\ \A seed \in Seeds :
            (Len(seed) = SEED_BYTES /\ KeygenHalf(seed) # KeygenHalf(last.a))
            => derive(seed).keys.public # last.v

\* derive returned a keypair for a seed whose halves differ, and another seed
\* shares its first half.
C21_Witness ==
    /\ last.op = "derive" /\ last.res = "Ok"
    /\ KeygenHalf(last.a) # ZHalf(last.a)
    /\ SkFields(last.w)[4] = ZHalf(last.a)
    /\ \E seed \in Seeds :
        /\ Len(seed) = SEED_BYTES /\ seed # last.a
        /\ KeygenHalf(seed) = KeygenHalf(last.a)
        /\ derive(seed).keys.secret # last.w

\* The value of fail in decrypt_message(ss, ct, sk): 0 when ct is what
\* re-encrypting its decryption gives, 1 otherwise.
ReencryptionCheck(ct, sk) ==
    LET pk == Slice(sk, KYBER_INDCPA_SECRETKEYBYTES,
                    KYBER_INDCPA_SECRETKEYBYTES + KYBER_INDCPA_PUBLICKEYBYTES)
        buf1 == indcpa_dec(zeros(2 * KYBER_SYM_BYTES), ct, sk)
        START == KYBER_SECRET_KEY_BYTES - 2 * KYBER_SYM_BYTES
        END == KYBER_SECRET_KEY_BYTES - KYBER_SYM_BYTES
        buf == Splice(buf1, KYBER_SYM_BYTES, Slice(sk, START, END))
        kr1 == hash_g(zeros(2 * KYBER_SYM_BYTES), 0, buf, 2 * KYBER_SYM_BYTES)
        cmp == indcpa_enc(zeros(KYBER_CIPHERTEXT_BYTES), 0, buf, pk,
                          Slice(kr1, KYBER_SYM_BYTES, 2 * KYBER_SYM_BYTES))
    IN  verify(ct, cmp, KYBER_CIPHERTEXT_BYTES)

\* sk with its z field replaced by z, and the values of z tried.
WithZ(sk, z) == Splice(sk, KYBER_SECRET_KEY_BYTES - KYBER_SYM_BYTES, z)

ZValues ==
    {zeros(KYBER_SYM_BYTES), Atom("x", 1, KYBER_SYM_BYTES)}
        \cup {Atom("r", v, KYBER_SYM_BYTES) : v \in 1..MaxRand}

\* C22: z is used only on decapsulation failure.  For two secret keys that
\* are identical except for their z field, decapsulation returns the same
\* shared secret on every ciphertext that passes the re-encryption check; on
\* a ciphertext that fails it the result is the KDF of z followed by H(ct),
\* and so depends on the secret key only through z: another secret key with
\* the same z, which decrypts to another pre-key, gives the same result.
C22_ZOnlyOnFailure ==
    (EncToOwnKey /\ last.op = "encapsulate")
    => \A ct \in {enc.ct, zeros(KYBER_CIPHERTEXT_BYTES)} \cup Altered(enc.ct) :
         \A z \in ZValues :
            LET sk2 == WithZ(keys.secret, z)
            IN  /\ ReencryptionCheck(ct, sk2) = ReencryptionCheck(ct, keys.secret)
                /\ ReencryptionCheck(ct, keys.secret) = 0
                    => SecretOf(ct, sk2) = SecretOf(ct, keys.secret)
                /\ ReencryptionCheck(ct, keys.secret) # 0
                    => /\ SecretOf(ct, sk2)
                           = Digest("KDF", KYBER_SHARED_SECRET_BYTES,
                                    z \o Digest("H", KYBER_SYM_BYTES, ct))
                       /\ ReencryptionCheck(ct, OtherKeys.secret) # 0
                           => SecretOf(ct, WithZ(OtherKeys.secret, z))
                                = SecretOf(ct, sk2)

\* The caller's ciphertext passes the check under the caller's key with
\* another z, an altered one fails it, and the two keys, which differ, then
\* give different results.
C22_Witness ==
    /\ EncToOwnKey /\ last.op = "encapsulate"
    /\ \E z \in ZValues :
        LET sk2 == WithZ(keys.secret, z)
        IN  /\ sk2 # keys.secret
            /\ ReencryptionCheck(enc.ct, sk2) = 0
            /\ SecretOf(enc.ct, sk2) = enc.ss
            /\ ReencryptionCheck(Flip(enc.ct, 1), sk2) # 0
            /\ SecretOf(Flip(enc.ct, 1), sk2) # SecretOf(Flip(enc.ct, 1), keys.secret)

\* C23: length checks come first.  encapsulate with a wrong-length pk
\* returns InvalidInput before the randomness source is consulted: the
\* result is InvalidInput also when the source would fail or panic, and no
\* draw is consumed.  decapsulate with a wrong length returns InvalidInput
\* and no shared secret, and derive with a wrong-length seed returns
\* InvalidInput and no keypair; none of the three calls changes what the
\* caller holds.
C23_LengthChecksFirst ==
    /\ []((last.op = "encapsulate" /\ Len(last.a) # KYBER_PUBLIC_KEY_BYTES)
            => /\ last.res = "InvalidInput"
               /\ last.b = <<>> /\ last.v = <<>> /\ last.w = <<>>
               /\ \A q \in {<<0>>, DummyRng, <<1>>} :
                    encapsulate(last.a, q)
                        = [res |-> "InvalidInput", ct |-> <<>>, ss |-> <<>>, q |-> q])
    /\ []((last.op = "decapsulate"
                /\ (Len(last.a) # KYBER_CIPHERTEXT_BYTES
                        \/ Len(last.b) # KYBER_SECRET_KEY_BYTES))
            => (last.res = "InvalidInput" /\ last.v = <<>>))
    /\ []((last.op = "derive" /\ Len(last.a) # SEED_BYTES)
            => /\ last.res = "InvalidInput"
               /\ last.v = NoKeypair.public /\ last.w = NoKeypair.secret)
    /\ [][(last'.op \in {"encapsulate", "decapsulate", "derive"}
                /\ last'.res = "InvalidInput")
            => (keys' = keys /\ enc' = enc)]_vars

\* encapsulate was called with a public key of a wrong length, and returns
\* InvalidInput for it from a source that fails.
C23_Witness ==
    /\ last.op = "encapsulate" /\ last.res = "InvalidInput"
    /\ Len(last.a) = KYBER_PUBLIC_KEY_BYTES - 1
    /\ last.b = <<>>
    /\ encapsulate(last.a, <<0>>).res = "InvalidInput"
    /\ encapsulate(keys.public, <<0>>).res = "RandomBytesGeneration"

\* Where the public key embedded in a secret key ends.
EmbeddedPkEnd == KYBER_INDCPA_SECRETKEYBYTES + KYBER_INDCPA_PUBLICKEYBYTES

\* C24, as stated: public(sk) performs no length validation; for every sk
\* shorter than KYBER_SECRET_KEY_BYTES it still returns a value of exactly
\* KYBER_PUBLIC_KEY_BYTES, taken from the fixed offset, instead of failing.
C24_PublicUnchecked ==
    (last.op = "public" /\ Len(last.a) < KYBER_SECRET_KEY_BYTES)
    => /\ last.res = "Ok"
       /\ Len(last.v) = KYBER_PUBLIC_KEY_BYTES
       /\ last.v = Slice(last.a, KYBER_INDCPA_SECRETKEYBYTES, EmbeddedPkEnd)

\* C24, amended: public(sk) performs no length validation; for every sk that
\* reaches the end of the embedded public key, shorter than, as long as or
\* longer than KYBER_SECRET_KEY_BYTES, it returns the KYBER_PUBLIC_KEY_BYTES
\* at the fixed offset, and for a shorter sk the slice panics; it never
\* returns an error.
C24_PublicUncheckedAmended ==
    last.op = "public"
    => IF Len(last.a) >= EmbeddedPkEnd
       THEN /\ last.res = "Ok"
            /\ Len(last.v) = KYBER_PUBLIC_KEY_BYTES
            /\ last.v = Slice(last.a, KYBER_INDCPA_SECRETKEYBYTES, EmbeddedPkEnd)
       ELSE last.res = "panic" /\ last.v = <<>>

\* public was handed the caller's secret key less its last block, as in the
\* test, and returned the caller's public key.
C24_Witness ==
    /\ last.op = "public" /\ keys.set
    /\ last.a = Slice(keys.secret, 0, KYBER_SECRET_KEY_BYTES - 1)
    /\ last.res = "Ok" /\ last.v = keys.public

\* C25: ephemeral erasure.  Once a handshake completes (client_confirm has
\* returned) or aborts (client_init has returned an error), the initiator's
\* ephemeral secret key eska and its temp_key are all zero.
C25_EphemeralErasure ==
    (run.pc = "done" \/ (run.pc = "aborted" /\ run.r1 \notin {"none", "Ok"}))
    => /\ alice.eska = zeros(KYBER_SECRET_KEY_BYTES)
       /\ alice.temp_key = zeros(KYBER_SHARED_SECRET_BYTES)

\* The instance the client_init macro of the run built, as client_init left
\* it: what holds the ephemeral secret key and temp_key of the run.
InitiatorOfRun ==
    IF run.proto = "uake"
    THEN Uake_client_init(Uake_default, bob_keys.public, run.q1).self
    ELSE Ake_client_init(Ake_default, bob_keys.public, run.q1).self

\* C26: macro-driven handshake.  When the client_init, server_receive and
\* client_confirm macros of Uake (or of Ake) are run in sequence, each on the
\* output of the one before, the shared secret the client_confirm macro
\* derives is computed with the ephemeral secret key and temp_key the
\* client_init macro established, and equals the shared secret the
\* server_receive macro derived.
C26_MacroHandshake ==
    /\ HonestDone("uake")
        => /\ alice.shared_secret
                = uake_shared_a(zeros(KYBER_SHARED_SECRET_BYTES), run.recv_b,
                                InitiatorOfRun.temp_key, InitiatorOfRun.eska).k
           /\ alice.shared_secret = bob.shared_secret
    /\ HonestDone("ake")
        => /\ alice.shared_secret
                = ake_shared_a(zeros(KYBER_SHARED_SECRET_BYTES), run.recv_b,
                               InitiatorOfRun.temp_key, InitiatorOfRun.eska,
                               alice_keys.secret).k
           /\ alice.shared_secret = bob.shared_secret

\* client_init returned an error.
InitiatorError == run.pc = "aborted" /\ run.r1 \notin {"none", "Ok"}

\* C27: state unchanged on initiator error.  If client_init of Uake or Ake
\* returns an error (the randomness source fails at the ephemeral key
\* generation or at the encapsulation after it), the instance's send_a,
\* temp_key and eska are what they were before the call, here those of a
\* fresh instance.
C27_InitiatorUnchangedOnError ==
    InitiatorError
    => /\ alice.send_a = Uake_default.send_a
       /\ alice.temp_key = Uake_default.temp_key
       /\ alice.eska = Uake_default.eska

\* server_receive returned an error.
ResponderError == run.pc = "aborted" /\ run.r2 \notin {"none", "Ok"}

\* A shared secret an instance may hold from an earlier use.
EarlierSecret == Atom("x", 1, KYBER_SHARED_SECRET_BYTES)

\* C28: responder secret unchanged on error.  If server_receive of Uake or
\* Ake returns an error (the randomness source fails at either
\* encapsulation), the instance's shared_secret is what it was before the
\* call, whatever that was; it is written only after every fallible step
\* has succeeded, and then it is written.
C28_ResponderSecretUnchangedOnError ==
    /\ [][(run'.r2 # "none" /\ run.r2 = "none")
            => IF run'.r2 = "Ok"
               THEN bob'.shared_secret # bob.shared_secret
               ELSE bob'.shared_secret = bob.shared_secret]_vars
    /\ [](ResponderError
            => /\ bob.shared_secret = zeros(KYBER_SHARED_SECRET_BYTES)
               /\ run.proto = "uake"
                    => \E r \in {uake_shared_b(zeros(UAKE_RESPONSE_BYTES), EarlierSecret,
                                                run.recv_a, bob_keys.secret, run.q2)} :
                        r.res = run.r2 /\ r.k = EarlierSecret
               /\ run.proto = "ake"
                    => \E r \in {ake_shared_b(zeros(AKE_RESPONSE_BYTES), EarlierSecret,
                                               run.recv_a, bob_keys.secret, run.pka,
                                               run.q2)} :
                        r.res = run.r2 /\ r.k = EarlierSecret)

\* The second encapsulation of an Ake server_receive failed: the first
\* ciphertext is in send_b, the shared secret is untouched.
C28_Witness ==
    /\ ResponderError /\ run.proto = "ake"
    /\ Len(run.q2) = 2 /\ run.q2[1] # 0 /\ run.q2[2] = 0
    /\ bob.send_b # Ake_default.send_b
    /\ bob.shared_secret = zeros(KYBER_SHARED_SECRET_BYTES)

\* What client_confirm derives on the instance self from send_b.
Confirmed(proto, self, send_b) ==
    IF proto = "uake"
    THEN uake_shared_a(zeros(KYBER_SHARED_SECRET_BYTES), send_b,
                       self.temp_key, self.eska).k
    ELSE ake_shared_a(zeros(KYBER_SHARED_SECRET_BYTES), send_b,
                      self.temp_key, self.eska, alice_keys.secret).k

\* client_confirm was called on an instance client_init never ran on.
ConfirmedFresh == run.pc = "done" /\ run.r1 = "none"

\* C29: phase order is not enforced.  client_confirm does not check that
\* client_init has run on the same instance: called on a fresh Uake or Ake
\* instance with any send_b it returns Ok and overwrites shared_secret with
\* a value derived from the all-zero ephemeral secret key and the all-zero
\* temp_key; called a second time on an instance it returns Ok again and
\* recomputes shared_secret from the new send_b.
C29_PhaseOrderNotEnforced ==
    /\ ConfirmedFresh
        => /\ run.r3 = "Ok"
           /\ alice.eska = zeros(KYBER_SECRET_KEY_BYTES)
           /\ alice.temp_key = zeros(KYBER_SHARED_SECRET_BYTES)
           /\ alice.shared_secret = Confirmed(run.proto, Uake_default, run.recv_b)
           /\ alice.shared_secret # zeros(KYBER_SHARED_SECRET_BYTES)
    /\ run.pc = "reconfirmed"
        => /\ run.r3 = "Ok"
           /\ alice.shared_secret = Confirmed(run.proto, alice, run.recv_b)

\* A fresh Uake instance was handed an all-zero send_b and holds a shared
\* secret.
C29_Witness ==
    /\ ConfirmedFresh /\ run.proto = "uake"
    /\ run.recv_b = zeros(UAKE_RESPONSE_BYTES)
    /\ run.r3 = "Ok"
    /\ alice.shared_secret # zeros(KYBER_SHARED_SECRET_BYTES)

\* An instance whose initiator-side fields (temp_key, eska, send_a) hold
\* bytes of an earlier use.
UsedAsInitiator(self) ==
    [self EXCEPT !.temp_key = Atom("x", 2, KYBER_SHARED_SECRET_BYTES),
                 !.eska = Atom("x", 3, KYBER_SECRET_KEY_BYTES),
                 !.send_a = Atom("x", 4, Len(self.send_a))]

\* The server_receive call of this run, made on the instance self.
ServerReceiveOn(self) ==
    IF run.proto = "uake"
    THEN Uake_server_receive(self, run.recv_a, bob_keys.secret, run.q2)
    ELSE Ake_server_receive(self, run.recv_a, run.pka, bob_keys.secret, run.q2)

\* The client_init call of this run, made on the instance self.
ClientInitOn(self) ==
    IF run.proto = "uake"
    THEN Uake_client_init(self, bob_keys.public, run.q1)
    ELSE Ake_client_init(self, bob_keys.public, run.q1)

FreshInstance == IF run.proto = "uake" THEN Uake_default ELSE Ake_default

\* C30: frame of the handshake steps.  server_receive changes only send_b and
\* shared_secret of its instance, and the same call on an instance whose
\* temp_key, eska and send_a hold other bytes returns the same result, writes
\* the same send_b and shared_secret and leaves those three fields as they
\* were.  client_init changes only send_a, temp_key and eska: after it, and
\* until client_confirm, the fresh instance's shared_secret and send_b are
\* still all zero, and the same call on an instance that holds a shared
\* secret leaves that secret and its send_b in place.
C30_HandshakeFrame ==
    /\ [](run.r2 # "none" =>
            /\ bob.temp_key = FreshInstance.temp_key
            /\ bob.eska = FreshInstance.eska
            /\ bob.send_a = FreshInstance.send_a
            /\ \E r \in {ServerReceiveOn(UsedAsInitiator(FreshInstance))} :
                /\ r.res = run.r2
                /\ r.out = run.sent_b
                /\ r.self = [UsedAsInitiator(FreshInstance) EXCEPT
                                 !.send_b = bob.send_b,
                                 !.shared_secret = bob.shared_secret])
    /\ []((run.r1 # "none" /\ run.pc \in {"sent", "answered", "aborted"}) =>
            /\ alice.shared_secret = zeros(KYBER_SHARED_SECRET_BYTES)
            /\ alice.send_b = FreshInstance.send_b)
    /\ [](run.pc = "answered" =>
            \E r \in {ClientInitOn(bob)} :
                /\ r.res = "Ok"
                /\ r.self = [bob EXCEPT !.send_a = alice.send_a,
                                        !.temp_key = alice.temp_key,
                                        !.eska = alice.eska])
    /\ [][(run.r2 = "none" /\ run'.r2 # "none") => alice' = alice]_vars
    /\ [][(run.r1 = "none" /\ run'.r1 # "none") =>
             alice'.shared_secret = alice.shared_secret]_vars

\* The responder answered and derived a secret while the initiator, between
\* client_init and client_confirm, still holds an all-zero shared_secret.
C30_Witness ==
    /\ run.pc = "answered" /\ run.r1 = "Ok" /\ run.r2 = "Ok"
    /\ bob.shared_secret # zeros(KYBER_SHARED_SECRET_BYTES)
    /\ bob.send_b # FreshInstance.send_b
    /\ alice.shared_secret = zeros(KYBER_SHARED_SECRET_BYTES)
    /\ alice.temp_key # zeros(KYBER_SHARED_SECRET_BYTES)

====
